---- MODULE Spec2Model ----
(***************************************************************************)
(* Model of the ch19_graph_algorithms library: the Graph container         *)
(* (lib/graph.py) and the algorithms that read it: BFS and DFS             *)
(* (lib/traversal.py), MinimumSpanningTree and UnionFind (lib/tree.py),    *)
(* TopologicalSort (lib/topology.py).                                      *)
(*                                                                         *)
(* Vertex labels are the integers 1..MaxVertex (Python needs them hashable *)
(* and, for Kruskal's sort, comparable).  An adjacency entry is the pair   *)
(* <<neighbor, weight>>.  A call of an algorithm is one action; what it    *)
(* returned or raised is recorded in the variable call.  A UnionFind that  *)
(* a caller makes for itself is the variable union_find, and joined is the *)
(* partition of its elements that the union calls made so far define.      *)
(***************************************************************************)
EXTENDS Integers, Sequences, FiniteSets, TLC

VARIABLES vertices, vertex_count, is_directed, is_weighted, adj_list,
          adj_matrix, call, union_find, joined

vars == <<vertices, vertex_count, is_directed, is_weighted, adj_list,
          adj_matrix, call, union_find, joined>>

\* ------------------------------------------------------------------ bounds
\* Vertex labels are 1..MaxVertex.
MaxVertex == 3
\* At most MaxEdges add_edge calls are made on a graph.
MaxEdges == 3
\* Explicit edge weights are 1..MaxWeight.
MaxWeight == 2
\* A UnionFind of its own has the elements 1..n for an n up to MaxElement.
MaxElement == 4

\* float('inf'), the "no edge" cell of a weighted adjacency matrix: a number
\* above every weight and every sum of weights of the model.
Inf == 1000000

Vertex == 1..MaxVertex
Weight == 1..MaxWeight

\* ----------------------------------------------------------------- helpers
Range(s) == {s[i] : i \in 1..Len(s)}

\* v in a Python list
InList(v, s) == \E i \in 1..Len(s) : s[i] = v

\* list.index(v): the first position of v
Index(s, v) == CHOOSE i \in 1..Len(s) : s[i] = v /\ \A j \in 1..(i - 1) : s[j] # v

\* s[::-1] and reversed(s)
Reverse(s) == [i \in 1..Len(s) |-> s[Len(s) + 1 - i]]

RECURSIVE SumSeq(_)
SumSeq(s) == IF s = <<>> THEN 0 ELSE Head(s) + SumSeq(Tail(s))

\* The sequences without repetition over S (S finite).
RECURSIVE DupFreeSeqs(_)
DupFreeSeqs(S) ==
    {<<>>} \cup UNION {{<<x>> \o t : t \in DupFreeSeqs(S \ {x})} : x \in S}

\* The record of the call op(args) and of what it did.
Called(op, args, outcome) ==
    [op |-> op, args |-> args, status |-> outcome.status, val |-> outcome.val]

\* What a call did: it returned val, or it raised the named error.
Return(v) == [status |-> "return", val |-> v]
Raise(e) == [status |-> "raise", val |-> e]
\* The messages of the ValueErrors the library raises, and the two errors
\* Python itself raises on an empty vertex sequence.
VertexNotFound == "ValueError: Vertex not in graph"
WrongGraphKind == "ValueError: wrong graph kind"
CycleDetected == "ValueError: Graph contains a cycle"
NoLongestPath == "ValueError: Cannot find longest path"
EmptyMax == "ValueError: max() arg is an empty sequence"
EmptyIndex == "IndexError: list index out of range"

\* The call returned None.
ReturnNone == [status |-> "none", val |-> <<>>]

\* ------------------------------------------------------------------- Graph
\* The Graph object as a value, as the algorithms receive it.
graph == [vertices |-> vertices, vertex_count |-> vertex_count,
          is_directed |-> is_directed, is_weighted |-> is_weighted,
          adj_list |-> adj_list, adj_matrix |-> adj_matrix]

\* Graph._build_matrix: a fresh n x n matrix, every cell 0, or for a
\* weighted graph inf with a 0 diagonal.
BuildMatrix(n, weighted) ==
    [i \in 1..n |-> [j \in 1..n |->
        IF weighted THEN (IF i = j THEN 0 ELSE Inf) ELSE 0]]

\* add_vertex building the matrix anew also for a vertex it has.
AddVertexRebuilding(g, vertex) ==
    IF ~InList(vertex, g.vertices)
    THEN [g EXCEPT !.vertices = Append(g.vertices, vertex),
                   !.vertex_count = g.vertex_count + 1,
                   !.adj_list = [k \in DOMAIN g.adj_list \cup {vertex} |->
                                   IF k = vertex THEN <<>> ELSE g.adj_list[k]],
                   !.adj_matrix = BuildMatrix(g.vertex_count + 1, g.is_weighted)]
    ELSE [g EXCEPT !.adj_matrix = BuildMatrix(g.vertex_count, g.is_weighted)]

\* add_vertex without the membership test.
AddVertexAgain(g, vertex) ==
    [g EXCEPT !.vertices = Append(g.vertices, vertex),
              !.vertex_count = g.vertex_count + 1,
              !.adj_list = [k \in DOMAIN g.adj_list \cup {vertex} |->
                              IF k = vertex THEN <<>> ELSE g.adj_list[k]],
              !.adj_matrix = BuildMatrix(g.vertex_count + 1, g.is_weighted)]

\* add_vertex without the rebuild of the matrix.
AddVertexNoRebuild(g, vertex) ==
    IF ~InList(vertex, g.vertices)
    THEN [g EXCEPT !.vertices = Append(g.vertices, vertex),
                   !.vertex_count = g.vertex_count + 1,
                   !.adj_list = [k \in DOMAIN g.adj_list \cup {vertex} |->
                                   IF k = vertex THEN <<>> ELSE g.adj_list[k]]]
    ELSE g

\* Graph.add_vertex on the graph value g.
AddVertexTo(g, vertex) ==
    IF ~InList(vertex, g.vertices)
    THEN [g EXCEPT !.vertices = Append(g.vertices, vertex),
                   !.vertex_count = g.vertex_count + 1,
                   !.adj_list = [k \in DOMAIN g.adj_list \cup {vertex} |->
                                   IF k = vertex THEN <<>> ELSE g.adj_list[k]],
                   !.adj_matrix = BuildMatrix(g.vertex_count + 1, g.is_weighted)]
    ELSE g

\* add_edge's lists without the reverse entry of an undirected edge.
AddEdgeListsOneWay(al, source, destination, weight, directed) ==
    [al EXCEPT ![source] = Append(@, <<destination, weight>>)]

\* add_edge's lists with the reverse entry left out when the edge is a
\* self-loop.
AddEdgeListsLoopOnce(al, source, destination, weight, directed) ==
    LET al1 == [al EXCEPT ![source] = Append(@, <<destination, weight>>)]
    IN IF ~directed /\ source # destination
       THEN [al1 EXCEPT ![destination] = Append(@, <<source, weight>>)]
       ELSE al1

\* The adjacency-list part of Graph.add_edge.
AddEdgeLists(al, source, destination, weight, directed) ==
    LET al1 == [al EXCEPT ![source] = Append(@, <<destination, weight>>)]
    IN IF ~directed
       THEN [al1 EXCEPT ![destination] = Append(@, <<source, weight>>)]
       ELSE al1

\* The adjacency-matrix part of Graph.add_edge.
AddEdgeMatrix(m, src_idx, dst_idx, weight, directed, weighted) ==
    LET cell == IF weighted THEN weight ELSE 1
        m1 == [m EXCEPT ![src_idx][dst_idx] = cell]
    IN IF ~directed THEN [m1 EXCEPT ![dst_idx][src_idx] = cell] ELSE m1

\* Graph.add_edge on the graph value g.
AddEdgeTo(g, source, destination, weight) ==
    LET g1 == IF ~InList(source, g.vertices) THEN AddVertexTo(g, source) ELSE g
        g2 == IF ~InList(destination, g1.vertices)
              THEN AddVertexTo(g1, destination) ELSE g1
    IN [g2 EXCEPT
          !.adj_list = AddEdgeLists(g2.adj_list, source, destination, weight,
                                    g2.is_directed),
          !.adj_matrix = AddEdgeMatrix(g2.adj_matrix,
                                       Index(g2.vertices, source),
                                       Index(g2.vertices, destination),
                                       weight, g2.is_directed, g2.is_weighted)]

\* Graph.get_neighbors raises exactly when the vertex is no key of adj_list.
HasNeighbors(g, vertex) == vertex \in DOMAIN g.adj_list

\* Graph.get_neighbors, where it returns.
get_neighbors(g, vertex) == g.adj_list[vertex]

\* The number of add_edge calls made so far: a directed edge is one entry,
\* an undirected one two.
EdgeCalls ==
    LET entries == SumSeq([i \in 1..Len(vertices) |-> Len(adj_list[vertices[i]])])
    IN IF is_directed THEN entries ELSE entries \div 2

\* ------------------------------------------------------------------- BFS
\* BFSScan stopping one neighbor early.
RECURSIVE BFSScanSkipLast(_, _, _, _)
BFSScanSkipLast(neighbors, i, visited, queue) ==
    IF i >= Len(neighbors) THEN [visited |-> visited, queue |-> queue]
    ELSE LET neighbor == neighbors[i][1]
         IN IF neighbor \notin visited
            THEN BFSScanSkipLast(neighbors, i + 1, visited \cup {neighbor},
                                 Append(queue, neighbor))
            ELSE BFSScanSkipLast(neighbors, i + 1, visited, queue)

\* The for loop of BFS.traverse over neighbors[i..]: its effect on
\* (visited, queue).
RECURSIVE BFSScan(_, _, _, _)
BFSScan(neighbors, i, visited, queue) ==
    IF i > Len(neighbors) THEN [visited |-> visited, queue |-> queue]
    ELSE LET neighbor == neighbors[i][1]
         IN IF neighbor \notin visited
            THEN BFSScan(neighbors, i + 1, visited \cup {neighbor},
                         Append(queue, neighbor))
            ELSE BFSScan(neighbors, i + 1, visited, queue)

\* The while loop of BFS.traverse.
RECURSIVE BFSLoop(_, _, _, _)
BFSLoop(g, visited, queue, result) ==
    IF queue = <<>> THEN Return(result)
    ELSE LET vertex == Head(queue)
         IN IF ~HasNeighbors(g, vertex) THEN Raise(VertexNotFound)
            ELSE LET s == BFSScan(get_neighbors(g, vertex), 1, visited, Tail(queue))
                 IN BFSLoop(g, s.visited, s.queue, Append(result, vertex))

\* BFS.traverse(graph, start_vertex)
BFS_traverse(g, start_vertex) ==
    BFSLoop(g, {start_vertex}, <<start_vertex>>, <<>>)

\* The for loop of BFS.shortest_path: a queue entry is <<vertex, path>>.
RECURSIVE PathScan(_, _, _, _, _)
PathScan(neighbors, i, visited, queue, path) ==
    IF i > Len(neighbors) THEN [visited |-> visited, queue |-> queue]
    ELSE LET neighbor == neighbors[i][1]
         IN IF neighbor \notin visited
            THEN PathScan(neighbors, i + 1, visited \cup {neighbor},
                          Append(queue, <<neighbor, Append(path, neighbor)>>), path)
            ELSE PathScan(neighbors, i + 1, visited, queue, path)

\* The entries <<neighbor, path + [neighbor]>> of the unvisited neighbors
\* from position i on, pushed on a stack.
RECURSIVE PathPush(_, _, _, _, _)
PathPush(neighbors, i, visited, stack, path) ==
    IF i > Len(neighbors) THEN stack
    ELSE LET neighbor == neighbors[i][1]
         IN IF neighbor \notin visited
            THEN PathPush(neighbors, i + 1, visited,
                          Append(stack, <<neighbor, Append(path, neighbor)>>), path)
            ELSE PathPush(neighbors, i + 1, visited, stack, path)

\* PathLoop taking the entry added last (queue.pop() for queue.popleft())
\* and marking a vertex visited when it is taken: a depth-first search.
RECURSIVE PathLoopDepthFirst(_, _, _, _)
PathLoopDepthFirst(g, visited, queue, end) ==
    IF queue = <<>> THEN ReturnNone
    ELSE LET vertex == queue[Len(queue)][1]
             path == queue[Len(queue)][2]
             rest == SubSeq(queue, 1, Len(queue) - 1)
         IN IF vertex = end THEN Return(path)
            ELSE IF vertex \in visited /\ Len(path) > 1
            THEN PathLoopDepthFirst(g, visited, rest, end)
            ELSE IF ~HasNeighbors(g, vertex) THEN Raise(VertexNotFound)
            ELSE PathLoopDepthFirst(g, visited \cup {vertex},
                     PathPush(get_neighbors(g, vertex), 1, visited \cup {vertex},
                              rest, path),
                     end)

\* The while loop of BFS.shortest_path.
RECURSIVE PathLoop(_, _, _, _)
PathLoop(g, visited, queue, end) ==
    IF queue = <<>> THEN ReturnNone
    ELSE LET vertex == Head(queue)[1]
             path == Head(queue)[2]
         IN IF vertex = end THEN Return(path)
            ELSE IF ~HasNeighbors(g, vertex) THEN Raise(VertexNotFound)
            ELSE LET s == PathScan(get_neighbors(g, vertex), 1, visited,
                                   Tail(queue), path)
                 IN PathLoop(g, s.visited, s.queue, end)

\* shortest_path without its test that start and end are vertices.
ShortestPathUnguarded(g, start, end) ==
    PathLoop(g, {start}, <<<<start, <<start>>>>>>, end)

\* BFS.shortest_path(graph, start, end)
BFS_shortest_path(g, start, end) ==
    IF ~InList(start, g.vertices) \/ ~InList(end, g.vertices)
    THEN ReturnNone
    ELSE PathLoop(g, {start}, <<<<start, <<start>>>>>>, end)

\* The inner while loop of BFS.connected_components: one component.
RECURSIVE ComponentLoop(_, _, _, _)
ComponentLoop(g, visited, queue, component) ==
    IF queue = <<>> THEN [visited |-> visited, component |-> component]
    ELSE LET v == Head(queue)
             s == BFSScan(get_neighbors(g, v), 1, visited, Tail(queue))
         IN ComponentLoop(g, s.visited, s.queue, Append(component, v))

\* ComponentsFrom starting every component with the visited set of the
\* component before it forgotten.
RECURSIVE ComponentsForgetful(_, _, _, _)
ComponentsForgetful(g, i, visited, components) ==
    IF i > Len(g.vertices) THEN components
    ELSE LET vertex == g.vertices[i]
         IN IF vertex \notin visited
            THEN LET c == ComponentLoop(g, visited \cup {vertex}, <<vertex>>, <<>>)
                 IN ComponentsForgetful(g, i + 1, visited \cup {vertex},
                                        Append(components, c.component))
            ELSE ComponentsForgetful(g, i + 1, visited, components)

\* The outer for loop of BFS.connected_components over graph.vertices[i..].
RECURSIVE ComponentsFrom(_, _, _, _)
ComponentsFrom(g, i, visited, components) ==
    IF i > Len(g.vertices) THEN components
    ELSE LET vertex == g.vertices[i]
         IN IF vertex \notin visited
            THEN LET c == ComponentLoop(g, visited \cup {vertex}, <<vertex>>, <<>>)
                 IN ComponentsFrom(g, i + 1, c.visited,
                                   Append(components, c.component))
            ELSE ComponentsFrom(g, i + 1, visited, components)

\* BFS.connected_components(graph)
BFS_connected_components(g) == Return(ComponentsFrom(g, 1, {}, <<>>))

\* ------------------------------------------------------------------- DFS
\* dfs_recursive(vertex) of DFS.traverse and its for loop over
\* neighbors[i..], as one function of the closure state (visited, result).
RECURSIVE DFSVisit(_, _, _), DFSFor(_, _, _, _)
DFSVisit(g, vertex, st) ==
    DFSFor(g, get_neighbors(g, vertex), 1,
           [visited |-> st.visited \cup {vertex},
            result |-> Append(st.result, vertex)])
DFSFor(g, neighbors, i, st) ==
    IF i > Len(neighbors) THEN st
    ELSE LET neighbor == neighbors[i][1]
         IN IF neighbor \notin st.visited
            THEN DFSFor(g, neighbors, i + 1, DFSVisit(g, neighbor, st))
            ELSE DFSFor(g, neighbors, i + 1, st)

\* DFS.traverse(graph, start_vertex): the first get_neighbors raises when
\* start_vertex is no vertex; every later call is on a neighbor.
DFS_traverse(g, start_vertex) ==
    IF ~HasNeighbors(g, start_vertex) THEN Raise(VertexNotFound)
    ELSE Return(DFSVisit(g, start_vertex, [visited |-> {}, result |-> <<>>]).result)

\* The for loop of traverse_iterative walking reversed(neighbors) from its
\* end: the neighbors are pushed in adjacency order.
RECURSIVE PushUnvisitedBackward(_, _, _, _)
PushUnvisitedBackward(rneighbors, i, visited, stack) ==
    IF i > Len(rneighbors) THEN stack
    ELSE LET neighbor == rneighbors[Len(rneighbors) + 1 - i][1]
         IN IF neighbor \notin visited
            THEN PushUnvisitedBackward(rneighbors, i + 1, visited,
                                       Append(stack, neighbor))
            ELSE PushUnvisitedBackward(rneighbors, i + 1, visited, stack)

\* The for loop of DFS.traverse_iterative over reversed(neighbors)[i..].
RECURSIVE PushUnvisited(_, _, _, _)
PushUnvisited(rneighbors, i, visited, stack) ==
    IF i > Len(rneighbors) THEN stack
    ELSE LET neighbor == rneighbors[i][1]
         IN IF neighbor \notin visited
            THEN PushUnvisited(rneighbors, i + 1, visited, Append(stack, neighbor))
            ELSE PushUnvisited(rneighbors, i + 1, visited, stack)

\* IterLoop without its test that the popped vertex is unvisited.
RECURSIVE IterLoopNoPopTest(_, _, _, _)
IterLoopNoPopTest(g, visited, stack, result) ==
    IF stack = <<>> THEN Return(result)
    ELSE LET vertex == stack[Len(stack)]
             rest == SubSeq(stack, 1, Len(stack) - 1)
         IN IF ~HasNeighbors(g, vertex) THEN Raise(VertexNotFound)
            ELSE IterLoopNoPopTest(g, visited \cup {vertex},
                     PushUnvisited(Reverse(get_neighbors(g, vertex)), 1,
                                   visited \cup {vertex}, rest),
                     Append(result, vertex))

\* The while loop of DFS.traverse_iterative; the top of the stack is its
\* last element.
RECURSIVE IterLoop(_, _, _, _)
IterLoop(g, visited, stack, result) ==
    IF stack = <<>> THEN Return(result)
    ELSE LET vertex == stack[Len(stack)]
             rest == SubSeq(stack, 1, Len(stack) - 1)
         IN IF vertex \notin visited
            THEN IF ~HasNeighbors(g, vertex) THEN Raise(VertexNotFound)
                 ELSE IterLoop(g, visited \cup {vertex},
                               PushUnvisited(Reverse(get_neighbors(g, vertex)), 1,
                                             visited \cup {vertex}, rest),
                               Append(result, vertex))
            ELSE IterLoop(g, visited, rest, result)

\* DFS.traverse_iterative(graph, start_vertex)
DFS_traverse_iterative(g, start_vertex) ==
    IterLoop(g, {}, <<start_vertex>>, <<>>)

\* CycleFor leaving the vertex on rec_stack when its for loop is done.
RECURSIVE CycleForNoUnwind(_, _, _, _, _)
CycleForNoUnwind(g, vertex, neighbors, i, st) ==
    IF i > Len(neighbors)
    THEN [st EXCEPT !.found = FALSE]
    ELSE LET neighbor == neighbors[i][1]
         IN IF neighbor \notin st.visited
            THEN LET r == CycleForNoUnwind(g, neighbor, get_neighbors(g, neighbor), 1,
                              [visited |-> st.visited \cup {neighbor},
                               rec_stack |-> st.rec_stack \cup {neighbor},
                               found |-> FALSE])
                 IN IF r.found THEN r
                    ELSE CycleForNoUnwind(g, vertex, neighbors, i + 1, r)
            ELSE IF neighbor \in st.rec_stack
            THEN [st EXCEPT !.found = TRUE]
            ELSE CycleForNoUnwind(g, vertex, neighbors, i + 1, st)

\* has_cycle_util(vertex) of DFS.has_cycle and its for loop over
\* neighbors[i..], on the closure state (visited, rec_stack); found is the
\* value returned.
RECURSIVE CycleUtil(_, _, _), CycleFor(_, _, _, _, _)
CycleUtil(g, vertex, st) ==
    CycleFor(g, vertex, get_neighbors(g, vertex), 1,
             [visited |-> st.visited \cup {vertex},
              rec_stack |-> st.rec_stack \cup {vertex},
              found |-> FALSE])
CycleFor(g, vertex, neighbors, i, st) ==
    IF i > Len(neighbors)
    THEN [st EXCEPT !.rec_stack = @ \ {vertex}, !.found = FALSE]
    ELSE LET neighbor == neighbors[i][1]
         IN IF neighbor \notin st.visited
            THEN LET r == CycleUtil(g, neighbor, st)
                 IN IF r.found THEN r
                    ELSE CycleFor(g, vertex, neighbors, i + 1, r)
            ELSE IF neighbor \in st.rec_stack
            THEN [st EXCEPT !.found = TRUE]
            ELSE CycleFor(g, vertex, neighbors, i + 1, st)

\* The loop of has_cycle looking from the first vertex alone.
CycleFromFirstOnly(g, i, st) ==
    IF i > Len(g.vertices) THEN FALSE
    ELSE CycleUtil(g, g.vertices[i], st).found

\* The for loop of DFS.has_cycle over graph.vertices[i..].
RECURSIVE CycleFrom(_, _, _)
CycleFrom(g, i, st) ==
    IF i > Len(g.vertices) THEN FALSE
    ELSE LET vertex == g.vertices[i]
         IN IF vertex \notin st.visited
            THEN LET r == CycleUtil(g, vertex, st)
                 IN IF r.found THEN TRUE ELSE CycleFrom(g, i + 1, r)
            ELSE CycleFrom(g, i + 1, st)

\* DFS.has_cycle(graph)
DFS_has_cycle(g) ==
    Return(CycleFrom(g, 1, [visited |-> {}, rec_stack |-> {}, found |-> FALSE]))

\* ------------------------------------------------------------- UnionFind
\* UnionFind.__init__(vertices)
UnionFindInit(vs) ==
    [parent |-> [v \in Range(vs) |-> v], rank |-> [v \in Range(vs) |-> 0]]

\* UnionFind.find(vertex) with its path compression: the structure after
\* the call and the root returned.
RECURSIVE UF_find(_, _)
UF_find(uf, vertex) ==
    IF uf.parent[vertex] # vertex
    THEN LET r == UF_find(uf, uf.parent[vertex])
             uf1 == [r.uf EXCEPT !.parent[vertex] = r.root]
         IN [uf |-> uf1, root |-> uf1.parent[vertex]]
    ELSE [uf |-> uf, root |-> uf.parent[vertex]]

\* The union-by-rank step of UnionFind.union, on two different roots.
UF_link(uf, root1, root2) ==
    IF uf.rank[root1] < uf.rank[root2]
    THEN [uf EXCEPT !.parent[root1] = root2]
    ELSE IF uf.rank[root1] > uf.rank[root2]
    THEN [uf EXCEPT !.parent[root2] = root1]
    ELSE [uf EXCEPT !.parent[root2] = root1, !.rank[root1] = @ + 1]

\* union hanging vertex2 itself under vertex1, where union hangs one root
\* under the other.
UnionOfVertices(uf0, vertex1, vertex2) ==
    LET f1 == UF_find(uf0, vertex1)
        f2 == UF_find(f1.uf, vertex2)
    IN IF f1.root = f2.root
       THEN [uf |-> f2.uf, merged |-> FALSE]
       ELSE [uf |-> [f2.uf EXCEPT !.parent[vertex2] = vertex1], merged |-> TRUE]

\* UnionFind.union(vertex1, vertex2): the structure after the call and the
\* boolean returned.
UF_union(uf, vertex1, vertex2) ==
    LET f1 == UF_find(uf, vertex1)
        f2 == UF_find(f1.uf, vertex2)
    IN IF f1.root = f2.root
       THEN [uf |-> f2.uf, merged |-> FALSE]
       ELSE [uf |-> UF_link(f2.uf, f1.root, f2.root), merged |-> TRUE]

\* --------------------------------------------------- MinimumSpanningTree
\* Python's order on tuples of numbers of the same length.
RECURSIVE TupleLess(_, _)
TupleLess(a, b) ==
    IF a = <<>> THEN FALSE
    ELSE IF Head(a) # Head(b) THEN Head(a) < Head(b)
    ELSE TupleLess(Tail(a), Tail(b))

\* list.sort() on a list of tuples: stable, ascending.
RECURSIVE SortTuples(_)
SortTuples(s) ==
    IF s = <<>> THEN <<>>
    ELSE LET sorted == SortTuples(SubSeq(s, 1, Len(s) - 1))
             x == s[Len(s)]
             \* x goes after every element that is not above it
             k == Cardinality({i \in 1..Len(sorted) : ~TupleLess(x, sorted[i])})
         IN SubSeq(sorted, 1, k) \o <<x>> \o SubSeq(sorted, k + 1, Len(sorted))

\* tuple(sorted([vertex, neighbor]))
SortedPair(vertex, neighbor) ==
    IF neighbor < vertex THEN <<neighbor, vertex>> ELSE <<vertex, neighbor>>

\* The inner for loop of kruskal's edge collection over neighbors[j..].
RECURSIVE CollectFor(_, _, _, _)
CollectFor(vertex, neighbors, j, st) ==
    IF j > Len(neighbors) THEN st
    ELSE LET neighbor == neighbors[j][1]
             weight == neighbors[j][2]
             edge == SortedPair(vertex, neighbor)
         IN IF edge \notin st.seen
            THEN CollectFor(vertex, neighbors, j + 1,
                            [edges |-> Append(st.edges, <<weight, vertex, neighbor>>),
                             seen |-> st.seen \cup {edge}])
            ELSE CollectFor(vertex, neighbors, j + 1, st)

\* The outer for loop of kruskal's edge collection over graph.vertices[i..].
RECURSIVE CollectEdges(_, _, _)
CollectEdges(g, i, st) ==
    IF i > Len(g.vertices) THEN st.edges
    ELSE CollectEdges(g, i + 1,
                      CollectFor(g.vertices[i], get_neighbors(g, g.vertices[i]), 1, st))

\* The loop of kruskal accepting every edge without asking the UnionFind.
RECURSIVE KruskalLoopAcceptAll(_, _, _, _, _, _)
KruskalLoopAcceptAll(g, edges, i, uf, mst_edges, total_weight) ==
    IF i > Len(edges) THEN <<mst_edges, total_weight>>
    ELSE LET mst1 == Append(mst_edges, <<edges[i][2], edges[i][3], edges[i][1]>>)
             total1 == total_weight + edges[i][1]
         IN IF Len(mst1) = Len(g.vertices) - 1
            THEN <<mst1, total1>>
            ELSE KruskalLoopAcceptAll(g, edges, i + 1, uf, mst1, total1)

\* The for loop of kruskal over the sorted edges[i..], with its break.
RECURSIVE KruskalLoop(_, _, _, _, _, _)
KruskalLoop(g, edges, i, uf, mst_edges, total_weight) ==
    IF i > Len(edges) THEN <<mst_edges, total_weight>>
    ELSE LET weight == edges[i][1]
             u == edges[i][2]
             v == edges[i][3]
             r == UF_union(uf, u, v)
         IN IF r.merged
            THEN LET mst1 == Append(mst_edges, <<u, v, weight>>)
                     total1 == total_weight + weight
                 IN IF Len(mst1) = Len(g.vertices) - 1
                    THEN <<mst1, total1>>
                    ELSE KruskalLoop(g, edges, i + 1, r.uf, mst1, total1)
            ELSE KruskalLoop(g, edges, i + 1, r.uf, mst_edges, total_weight)

\* MinimumSpanningTree.kruskal(graph)
MST_kruskal(g) ==
    IF g.is_directed THEN Raise(WrongGraphKind)
    ELSE Return(KruskalLoop(g,
                    SortTuples(CollectEdges(g, 1, [edges |-> <<>>, seen |-> {}])),
                    1, UnionFindInit(g.vertices), <<>>, 0))

\* The for loops of prim that append the edges from vertex u to the
\* neighbors not yet visited, over neighbors[i..].
RECURSIVE Frontier(_, _, _, _, _)
Frontier(u, neighbors, i, visited, available_edges) ==
    IF i > Len(neighbors) THEN available_edges
    ELSE LET neighbor == neighbors[i][1]
             weight == neighbors[i][2]
         IN IF neighbor \notin visited
            THEN Frontier(u, neighbors, i + 1, visited,
                          Append(available_edges, <<weight, u, neighbor>>))
            ELSE Frontier(u, neighbors, i + 1, visited, available_edges)

\* The while loop of prim accepting the popped edge whether or not its
\* destination is visited already.
RECURSIVE PrimLoopNoSkip(_, _, _, _, _)
PrimLoopNoSkip(g, visited, available_edges, mst_edges, total_weight) ==
    IF available_edges = <<>> \/ ~(Cardinality(visited) < Len(g.vertices))
    THEN <<mst_edges, total_weight>>
    ELSE LET sorted == SortTuples(available_edges)
             weight == sorted[1][1]
             u == sorted[1][2]
             v == sorted[1][3]
             rest == Tail(sorted)
         IN PrimLoopNoSkip(g, visited \cup {v},
                           Frontier(v, get_neighbors(g, v), 1, visited \cup {v}, rest),
                           Append(mst_edges, <<u, v, weight>>),
                           total_weight + weight)

\* The while loop of prim.
RECURSIVE PrimLoop(_, _, _, _, _)
PrimLoop(g, visited, available_edges, mst_edges, total_weight) ==
    IF available_edges = <<>> \/ ~(Cardinality(visited) < Len(g.vertices))
    THEN <<mst_edges, total_weight>>
    ELSE LET sorted == SortTuples(available_edges)
             weight == sorted[1][1]
             u == sorted[1][2]
             v == sorted[1][3]
             rest == Tail(sorted)
         IN IF v \in visited
            THEN PrimLoop(g, visited, rest, mst_edges, total_weight)
            ELSE PrimLoop(g, visited \cup {v},
                          Frontier(v, get_neighbors(g, v), 1, visited \cup {v}, rest),
                          Append(mst_edges, <<u, v, weight>>),
                          total_weight + weight)

\* prim with the test of start_vertex ahead of the test of the graph kind.
PrimStartFirst(g, start_vertex) ==
    IF ~InList(start_vertex, g.vertices) THEN Raise(VertexNotFound)
    ELSE IF g.is_directed THEN Raise(WrongGraphKind)
    ELSE Return(PrimLoop(g, {start_vertex},
                         Frontier(start_vertex, get_neighbors(g, start_vertex), 1,
                                  {start_vertex}, <<>>),
                         <<>>, 0))

\* MinimumSpanningTree.prim(graph, start_vertex)
MST_prim(g, start_vertex) ==
    IF g.is_directed THEN Raise(WrongGraphKind)
    ELSE IF ~InList(start_vertex, g.vertices) THEN Raise(VertexNotFound)
    ELSE Return(PrimLoop(g, {start_vertex},
                         Frontier(start_vertex, get_neighbors(g, start_vertex), 1,
                                  {start_vertex}, <<>>),
                         <<>>, 0))

\* MinimumSpanningTree.prim(graph): start_vertex defaults to
\* graph.vertices[0], an IndexError on a graph without vertices.
MST_prim_default(g) ==
    IF g.is_directed THEN Raise(WrongGraphKind)
    ELSE IF g.vertices = <<>> THEN Raise(EmptyIndex)
    ELSE MST_prim(g, g.vertices[1])

\* ------------------------------------------------------- TopologicalSort
\* dfs_visit(vertex) of TopologicalSort.dfs_based and its for loop over
\* neighbors[i..], on the closure state (visited, rec_stack, stack); raised
\* says that the ValueError of a cycle is propagating.
RECURSIVE TopoVisit(_, _, _), TopoFor(_, _, _, _, _)
TopoVisit(g, vertex, st) ==
    TopoFor(g, vertex, get_neighbors(g, vertex), 1,
            [st EXCEPT !.visited = @ \cup {vertex},
                       !.rec_stack = @ \cup {vertex}])
TopoFor(g, vertex, neighbors, i, st) ==
    IF i > Len(neighbors)
    THEN [st EXCEPT !.rec_stack = @ \ {vertex}, !.stack = Append(@, vertex)]
    ELSE LET neighbor == neighbors[i][1]
         IN IF neighbor \notin st.visited
            THEN LET r == TopoVisit(g, neighbor, st)
                 IN IF r.raised THEN r
                    ELSE TopoFor(g, vertex, neighbors, i + 1, r)
            ELSE IF neighbor \in st.rec_stack
            THEN [st EXCEPT !.raised = TRUE]
            ELSE TopoFor(g, vertex, neighbors, i + 1, st)

\* The for loop of dfs_based over graph.vertices[i..].
RECURSIVE TopoFrom(_, _, _)
TopoFrom(g, i, st) ==
    IF i > Len(g.vertices) THEN st
    ELSE LET vertex == g.vertices[i]
         IN IF vertex \notin st.visited
            THEN LET r == TopoVisit(g, vertex, st)
                 IN IF r.raised THEN r ELSE TopoFrom(g, i + 1, r)
            ELSE TopoFrom(g, i + 1, st)

\* dfs_based returning the completion stack as it is, not reversed.
DfsBasedUnreversed(g) ==
    IF ~g.is_directed THEN Raise(WrongGraphKind)
    ELSE LET r == TopoFrom(g, 1, [visited |-> {}, rec_stack |-> {},
                                  stack |-> <<>>, raised |-> FALSE])
         IN IF r.raised THEN Raise(CycleDetected) ELSE Return(r.stack)

\* TopologicalSort.dfs_based(graph)
Topo_dfs_based(g) ==
    IF ~g.is_directed THEN Raise(WrongGraphKind)
    ELSE LET r == TopoFrom(g, 1, [visited |-> {}, rec_stack |-> {},
                                  stack |-> <<>>, raised |-> FALSE])
         IN IF r.raised THEN Raise(CycleDetected) ELSE Return(Reverse(r.stack))

\* The in-degree count of kahn_algorithm: the for loop over neighbors[j..].
RECURSIVE InDegreeFor(_, _, _)
InDegreeFor(neighbors, j, in_degree) ==
    IF j > Len(neighbors) THEN in_degree
    ELSE InDegreeFor(neighbors, j + 1,
                     [in_degree EXCEPT ![neighbors[j][1]] = @ + 1])

\* The in-degree count of kahn_algorithm: the for loop over
\* graph.vertices[i..].
RECURSIVE InDegrees(_, _, _)
InDegrees(g, i, in_degree) ==
    IF i > Len(g.vertices) THEN in_degree
    ELSE InDegrees(g, i + 1,
                   InDegreeFor(get_neighbors(g, g.vertices[i]), 1, in_degree))

\* [v for v in graph.vertices[i..] if in_degree[v] == 0]
RECURSIVE ZeroInDegree(_, _, _)
ZeroInDegree(vs, i, in_degree) ==
    IF i > Len(vs) THEN <<>>
    ELSE IF in_degree[vs[i]] = 0
    THEN <<vs[i]>> \o ZeroInDegree(vs, i + 1, in_degree)
    ELSE ZeroInDegree(vs, i + 1, in_degree)

\* KahnFor testing the in-degree before it decrements it.
RECURSIVE KahnForCheckFirst(_, _, _, _)
KahnForCheckFirst(neighbors, j, in_degree, queue) ==
    IF j > Len(neighbors) THEN [in_degree |-> in_degree, queue |-> queue]
    ELSE LET neighbor == neighbors[j][1]
             d == [in_degree EXCEPT ![neighbor] = @ - 1]
         IN IF in_degree[neighbor] = 0
            THEN KahnForCheckFirst(neighbors, j + 1, d, Append(queue, neighbor))
            ELSE KahnForCheckFirst(neighbors, j + 1, d, queue)

\* The for loop of kahn_algorithm's while body over neighbors[j..].
RECURSIVE KahnFor(_, _, _, _)
KahnFor(neighbors, j, in_degree, queue) ==
    IF j > Len(neighbors) THEN [in_degree |-> in_degree, queue |-> queue]
    ELSE LET neighbor == neighbors[j][1]
             d == [in_degree EXCEPT ![neighbor] = @ - 1]
         IN IF d[neighbor] = 0
            THEN KahnFor(neighbors, j + 1, d, Append(queue, neighbor))
            ELSE KahnFor(neighbors, j + 1, d, queue)

\* The while loop of kahn_algorithm.
RECURSIVE KahnLoop(_, _, _, _)
KahnLoop(g, in_degree, queue, result) ==
    IF queue = <<>> THEN result
    ELSE LET vertex == Head(queue)
             s == KahnFor(get_neighbors(g, vertex), 1, in_degree, Tail(queue))
         IN KahnLoop(g, s.in_degree, s.queue, Append(result, vertex))

\* kahn_algorithm without its final length check.
KahnUnchecked(g) ==
    IF ~g.is_directed THEN Raise(WrongGraphKind)
    ELSE LET in_degree == InDegrees(g, 1, [v \in Range(g.vertices) |-> 0])
         IN Return(KahnLoop(g, in_degree,
                            ZeroInDegree(g.vertices, 1, in_degree), <<>>))

\* TopologicalSort.kahn_algorithm(graph)
Topo_kahn_algorithm(g) ==
    IF ~g.is_directed THEN Raise(WrongGraphKind)
    ELSE LET in_degree == InDegrees(g, 1, [v \in Range(g.vertices) |-> 0])
             result == KahnLoop(g, in_degree,
                                ZeroInDegree(g.vertices, 1, in_degree), <<>>)
         IN IF Len(result) # Len(g.vertices) THEN Raise(CycleDetected)
            ELSE Return(result)

\* The relaxation of find_longest_path: the for loop over neighbors[j..].
RECURSIVE RelaxFor(_, _, _, _)
RelaxFor(vertex, neighbors, j, st) ==
    IF j > Len(neighbors) THEN st
    ELSE LET neighbor == neighbors[j][1]
             new_distance == st.distances[vertex] + neighbors[j][2]
         IN IF new_distance > st.distances[neighbor]
            THEN RelaxFor(vertex, neighbors, j + 1,
                          [distances |-> [st.distances EXCEPT ![neighbor] = new_distance],
                           predecessors |-> [st.predecessors EXCEPT ![neighbor] = <<vertex>>]])
            ELSE RelaxFor(vertex, neighbors, j + 1, st)

\* The relaxation of find_longest_path: the for loop over topo_order[i..].
RECURSIVE RelaxAll(_, _, _, _)
RelaxAll(g, topo_order, i, st) ==
    IF i > Len(topo_order) THEN st
    ELSE RelaxAll(g, topo_order, i + 1,
                  RelaxFor(topo_order[i], get_neighbors(g, topo_order[i]), 1, st))

\* The last vertex of the sequence with the largest distance.
MaxVertexLast(vs, distances) ==
    vs[CHOOSE i \in 1..Len(vs) :
          /\ \A j \in 1..Len(vs) : distances[vs[j]] <= distances[vs[i]]
          /\ \A j \in (i + 1)..Len(vs) : distances[vs[j]] < distances[vs[i]]]

\* max(graph.vertices, key=lambda v: distances[v]): the first vertex of the
\* sequence with the largest distance.
MaxVertexOf(vs, distances) ==
    vs[CHOOSE i \in 1..Len(vs) :
          /\ \A j \in 1..Len(vs) : distances[vs[j]] <= distances[vs[i]]
          /\ \A j \in 1..(i - 1) : distances[vs[j]] < distances[vs[i]]]

\* The path reconstruction of find_longest_path, before path.reverse(); a
\* predecessor is <<>> for None and <<p>> for the vertex p.
RECURSIVE Backtrack(_, _)
Backtrack(predecessors, current) ==
    IF current = <<>> THEN <<>>
    ELSE <<current[1]>> \o Backtrack(predecessors, predecessors[current[1]])

\* TopologicalSort.find_longest_path(graph); max() of an empty vertex
\* sequence raises ValueError.
Topo_find_longest_path(g) ==
    IF ~g.is_directed THEN Raise(WrongGraphKind)
    ELSE LET topo == Topo_kahn_algorithm(g)
         IN IF topo.status = "raise" THEN Raise(NoLongestPath)
            ELSE IF g.vertices = <<>> THEN Raise(EmptyMax)
            ELSE LET st == RelaxAll(g, topo.val, 1,
                              [distances |-> [v \in Range(g.vertices) |-> 0],
                               predecessors |-> [v \in Range(g.vertices) |-> <<>>]])
                     max_vertex == MaxVertexOf(g.vertices, st.distances)
                 IN Return(<<st.distances[max_vertex],
                             Reverse(Backtrack(st.predecessors, <<max_vertex>>))>>)

\* get_neighbors answering with an empty list for a vertex it does not
\* have.
GetNeighborsLenient(g, vertex) ==
    IF ~HasNeighbors(g, vertex) THEN Return(<<>>)
    ELSE Return(get_neighbors(g, vertex))

\* Graph.get_neighbors(vertex) as a call.
Graph_get_neighbors(g, vertex) ==
    IF ~HasNeighbors(g, vertex) THEN Raise(VertexNotFound)
    ELSE Return(get_neighbors(g, vertex))

\* The for loop of Graph.get_edge_weight over the adjacency list from
\* position i on.
RECURSIVE EdgeWeightFrom(_, _, _)
EdgeWeightFrom(neighbors, i, destination) ==
    IF i > Len(neighbors) THEN ReturnNone
    ELSE IF neighbors[i][1] = destination THEN Return(neighbors[i][2])
    ELSE EdgeWeightFrom(neighbors, i + 1, destination)

\* Graph.get_edge_weight(source, destination): adj_list[source] is a
\* KeyError when source is no vertex.
Graph_get_edge_weight(g, source, destination) ==
    IF source \notin DOMAIN g.adj_list THEN Raise("KeyError")
    ELSE EdgeWeightFrom(g.adj_list[source], 1, destination)

\* ----------------------------------------------------------------- state
\* Graph.__init__(vertices, is_directed, is_weighted) with a vertex list
\* without duplicates; no call has been made, and the caller has no
\* UnionFind of its own.
Init ==
    /\ is_directed \in BOOLEAN
    /\ is_weighted \in BOOLEAN
    /\ vertices \in DupFreeSeqs(Vertex)
    /\ vertex_count = Len(vertices)
    /\ adj_list = [v \in Range(vertices) |-> <<>>]
    /\ adj_matrix = BuildMatrix(Len(vertices), is_weighted)
    /\ call = [op |-> "__init__", args |-> <<>>, status |-> "return", val |-> <<>>]
    /\ union_find = UnionFindInit(<<>>)
    /\ joined = {}

\* The graph after a mutator returned the graph value g.
Becomes(g) ==
    /\ vertices' = g.vertices
    /\ vertex_count' = g.vertex_count
    /\ adj_list' = g.adj_list
    /\ adj_matrix' = g.adj_matrix
    /\ UNCHANGED <<is_directed, is_weighted, union_find, joined>>

\* A call that builds the matrix anew while it reads the graph.
QueryRebuilding(op, args, outcome) ==
    /\ call' = Called(op, args, outcome)
    /\ adj_matrix' = BuildMatrix(vertex_count, is_weighted)
    /\ UNCHANGED <<vertices, vertex_count, is_directed, is_weighted, adj_list,
                   union_find, joined>>

\* A call that reads the graph: its name, its arguments and what it
\* returned or raised are recorded (of a mutator, the name alone).
Query(op, args, outcome) ==
    /\ call' = Called(op, args, outcome)
    /\ UNCHANGED <<vertices, vertex_count, is_directed, is_weighted, adj_list,
                   adj_matrix, union_find, joined>>

\* graph.add_vertex(vertex)
add_vertex(vertex) ==
    /\ Becomes(AddVertexTo(graph, vertex))
    /\ call' = Called("add_vertex", <<>>, ReturnNone)

\* graph.add_edge(source, destination, weight); an unweighted graph is
\* built with the default weight.
add_edge(source, destination, weight) ==
    /\ EdgeCalls < MaxEdges
    /\ is_weighted \/ weight = 1
    /\ Becomes(AddEdgeTo(graph, source, destination, weight))
    /\ call' = Called("add_edge", <<>>, ReturnNone)

CallGetNeighbors(v) ==
    Query("get_neighbors", <<v>>, Graph_get_neighbors(graph, v))
CallGetEdgeWeight(s, d) ==
    Query("get_edge_weight", <<s, d>>, Graph_get_edge_weight(graph, s, d))
CallBfsTraverse(s) ==
    Query("BFS.traverse", <<s>>, BFS_traverse(graph, s))
CallShortestPath(s, e) ==
    Query("BFS.shortest_path", <<s, e>>, BFS_shortest_path(graph, s, e))
CallConnectedComponents ==
    Query("BFS.connected_components", <<>>, BFS_connected_components(graph))
CallDfsTraverse(s) ==
    Query("DFS.traverse", <<s>>, DFS_traverse(graph, s))
CallDfsTraverseIterative(s) ==
    Query("DFS.traverse_iterative", <<s>>, DFS_traverse_iterative(graph, s))
CallHasCycle ==
    Query("DFS.has_cycle", <<>>, DFS_has_cycle(graph))
CallKruskal ==
    Query("kruskal", <<>>, MST_kruskal(graph))
CallPrim(s) ==
    Query("prim", <<s>>, MST_prim(graph, s))
CallPrimDefault ==
    Query("prim", <<>>, MST_prim_default(graph))
CallDfsBased ==
    Query("dfs_based", <<>>, Topo_dfs_based(graph))
CallKahn ==
    Query("kahn_algorithm", <<>>, Topo_kahn_algorithm(graph))
CallFindLongestPath ==
    Query("find_longest_path", <<>>, Topo_find_longest_path(graph))

\* The sequence 1, ..., n: the elements of a UnionFind of its own.
Elements(n) == [i \in 1..n |-> i]

\* uf = UnionFind(elements): no graph is in play (the empty one stands for
\* it), every element is a set of its own.
UnionFindNew ==
    /\ is_directed = FALSE
    /\ is_weighted = FALSE
    /\ vertices = <<>>
    /\ vertex_count = 0
    /\ adj_list = [v \in {} |-> <<>>]
    /\ adj_matrix = BuildMatrix(0, FALSE)
    /\ \E n \in 1..MaxElement : union_find = UnionFindInit(Elements(n))
    /\ joined = {{v} : v \in DOMAIN union_find.parent}
    /\ call = [op |-> "UnionFind.__init__", args |-> <<>>, status |-> "return",
               val |-> <<>>]

\* The set of the partition P that holds a.
ClassOf(P, a) == CHOOSE c \in P : a \in c

\* The partition P with the sets of a and b made one.
Merged(P, a, b) ==
    (P \ {ClassOf(P, a), ClassOf(P, b)}) \cup {ClassOf(P, a) \cup ClassOf(P, b)}

\* uf.find(vertex) on an element of uf.
UnionFind_find(vertex) ==
    /\ vertex \in DOMAIN union_find.parent
    /\ LET r == UF_find(union_find, vertex)
       IN /\ union_find' = r.uf
          /\ call' = Called("UnionFind.find", <<vertex>>, Return(r.root))
    /\ UNCHANGED <<vertices, vertex_count, is_directed, is_weighted, adj_list,
                   adj_matrix, joined>>

\* uf.union(vertex1, vertex2) on two elements of uf.
UnionFind_union(vertex1, vertex2) ==
    /\ vertex1 \in DOMAIN union_find.parent
    /\ vertex2 \in DOMAIN union_find.parent
    /\ LET r == UF_union(union_find, vertex1, vertex2)
       IN /\ union_find' = r.uf
          /\ call' = Called("UnionFind.union", <<vertex1, vertex2>>, Return(r.merged))
    /\ joined' = Merged(joined, vertex1, vertex2)
    /\ UNCHANGED <<vertices, vertex_count, is_directed, is_weighted, adj_list,
                   adj_matrix>>

\* The calls on a UnionFind.
UnionFindCalls ==
    \/ \E v \in 1..MaxElement : UnionFind_find(v)
    \/ \E v1, v2 \in 1..MaxElement : UnionFind_union(v1, v2)

\* The caller builds the graph.
Build ==
    \/ \E v \in Vertex : add_vertex(v)
    \/ \E s, d \in Vertex, w \in Weight : add_edge(s, d, w)

GraphQueries ==
    \/ \E v \in Vertex : CallGetNeighbors(v)
    \/ \E s, d \in Vertex : CallGetEdgeWeight(s, d)

Traversals ==
    \/ \E s \in Vertex : CallBfsTraverse(s)
    \/ \E s, e \in Vertex : CallShortestPath(s, e)
    \/ CallConnectedComponents
    \/ \E s \in Vertex : CallDfsTraverse(s)
    \/ \E s \in Vertex : CallDfsTraverseIterative(s)
    \/ CallHasCycle

SpanningTrees ==
    \/ CallKruskal
    \/ \E s \in Vertex : CallPrim(s)
    \/ CallPrimDefault

TopologicalSorts ==
    \/ CallDfsBased
    \/ CallKahn
    \/ CallFindLongestPath

Next == Build \/ GraphQueries \/ Traversals \/ SpanningTrees \/ TopologicalSorts

Spec == Init /\ [][Next]_vars

\* The library used for its traversals, its spanning trees, its topological
\* sorts: the caller builds a graph and calls the algorithms of one family.
\* BFS and DFS read neither a weight nor is_weighted, so their graphs are
\* the unweighted ones, built with the default weight.
TraversalInit == Init /\ ~is_weighted
TraversalNext == Build \/ Traversals
TraversalSpec == TraversalInit /\ [][TraversalNext]_vars
MSTNext == Build \/ SpanningTrees
MSTSpec == Init /\ [][MSTNext]_vars
TopoNext == Build \/ TopologicalSorts
TopoSpec == Init /\ [][TopoNext]_vars
\* The construction of a graph on its own: add_vertex and add_edge calls.
GraphNext == Build
GraphSpec == Init /\ [][GraphNext]_vars
\* The two families that require a kind of graph, called on graphs of
\* either kind.
KindNext == Build \/ SpanningTrees \/ TopologicalSorts
KindSpec == Init /\ [][KindNext]_vars
\* A UnionFind used on its own: the caller makes it and calls union and
\* find on its elements.
UnionFindNext == UnionFindCalls
UnionFindSpec == UnionFindNew /\ [][UnionFindNext]_vars
\* The calls that look a vertex up: get_neighbors and the traversals from
\* a start.
Lookups ==
    \/ \E v \in Vertex : CallGetNeighbors(v)
    \/ \E s \in Vertex : CallBfsTraverse(s)
    \/ \E s \in Vertex : CallDfsTraverse(s)
    \/ \E s \in Vertex : CallDfsTraverseIterative(s)
LookupNext == Build \/ Lookups
LookupSpec == TraversalInit /\ [][LookupNext]_vars
\* The algorithms of the three families together, on the graphs built
\* with the default weight.
AlgorithmInit == Init /\ ~is_weighted
AlgorithmNext == Build \/ Traversals \/ SpanningTrees \/ TopologicalSorts
AlgorithmSpec == AlgorithmInit /\ [][AlgorithmNext]_vars

\* ------------------------------------------------------ the loops, by step
\* The calls with a work list, one iteration of the while loop at a time.
\* While a call runs, call.status is "running" and call.val holds the
\* locals of the loop: visited, the work list (the queue of BFS.traverse
\* and of kahn_algorithm, the stack of DFS.traverse_iterative,
\* available_edges of prim, the vertices on the way to the root of
\* UnionFind.find), the result so far, and in aux the in_degree map of
\* kahn_algorithm or the total_weight of prim.
Locals(visited, work, result, aux) ==
    [visited |-> visited, work |-> work, result |-> result, aux |-> aux]

Running == call.status = "running"

\* The locals of the running call.
Frame == call.val

\* The caller has no UnionFind of its own: it works on the graph.
NoUnionFind == DOMAIN union_find.parent = {}

\* The call op(args) has reached its loop with the locals.
Enters(op, args, locals) ==
    /\ call' = [op |-> op, args |-> args, status |-> "running", val |-> locals]
    /\ UNCHANGED <<vertices, vertex_count, is_directed, is_weighted, adj_list,
                   adj_matrix, union_find, joined>>

\* BFS.traverse(graph, start_vertex) up to its while loop.
StartBfsTraverse(start_vertex) ==
    /\ ~Running
    /\ Enters("BFS.traverse", <<start_vertex>>,
              Locals({start_vertex}, <<start_vertex>>, <<>>, 0))

\* DFS.traverse_iterative(graph, start_vertex) up to its while loop.
StartDfsTraverseIterative(start_vertex) ==
    /\ ~Running
    /\ Enters("DFS.traverse_iterative", <<start_vertex>>,
              Locals({}, <<start_vertex>>, <<>>, 0))

\* MinimumSpanningTree.prim(graph, start_vertex) up to its while loop; it
\* raises before the loop on a directed graph and on a start that is no
\* vertex.
StartPrim(start_vertex) ==
    /\ ~Running
    /\ IF is_directed
       THEN Query("prim", <<start_vertex>>, Raise(WrongGraphKind))
       ELSE IF ~InList(start_vertex, vertices)
       THEN Query("prim", <<start_vertex>>, Raise(VertexNotFound))
       ELSE Enters("prim", <<start_vertex>>,
                   Locals({start_vertex},
                          Frontier(start_vertex, get_neighbors(graph, start_vertex),
                                   1, {start_vertex}, <<>>),
                          <<>>, 0))

\* TopologicalSort.kahn_algorithm(graph) up to its while loop; it raises
\* before the loop on an undirected graph.
StartKahn ==
    /\ ~Running
    /\ IF ~is_directed
       THEN Query("kahn_algorithm", <<>>, Raise(WrongGraphKind))
       ELSE LET in_degree == InDegrees(graph, 1, [v \in Range(vertices) |-> 0])
            IN Enters("kahn_algorithm", <<>>,
                      Locals({}, ZeroInDegree(vertices, 1, in_degree), <<>>,
                             in_degree))

\* UnionFind.find(vertex) at its first call: the work list holds the
\* vertices of the calls of find that have not returned.
StartFind(vertex) ==
    /\ ~Running
    /\ vertex \in DOMAIN union_find.parent
    /\ Enters("UnionFind.find", <<vertex>>, Locals({}, <<vertex>>, <<>>, 0))

\* The test of the while loop of the running call; of find, the test that
\* makes it call itself.
LoopContinues ==
    CASE call.op = "prim"
           -> Frame.work # <<>> /\ Cardinality(Frame.visited) < Len(vertices)
      [] call.op = "UnionFind.find"
           -> union_find.parent[Frame.work[Len(Frame.work)]]
                 # Frame.work[Len(Frame.work)]
      [] OTHER -> Frame.work # <<>>

\* One iteration of the while loop of BFS.traverse.
BfsIteration(g, l) ==
    LET vertex == Head(l.work)
        s == BFSScan(get_neighbors(g, vertex), 1, l.visited, Tail(l.work))
    IN Locals(s.visited, s.queue, Append(l.result, vertex), 0)

\* An iteration of the while loop of DFS.traverse_iterative that reads
\* the top of the stack and leaves it there when it is visited.
DfsIterationWithoutPop(g, l) ==
    LET vertex == l.work[Len(l.work)]
        rest == SubSeq(l.work, 1, Len(l.work) - 1)
    IN IF vertex \notin l.visited
       THEN Locals(l.visited \cup {vertex},
                   PushUnvisited(Reverse(get_neighbors(g, vertex)), 1,
                                 l.visited \cup {vertex}, rest),
                   Append(l.result, vertex), 0)
       ELSE Locals(l.visited, l.work, l.result, 0)

\* One iteration of the while loop of DFS.traverse_iterative.
DfsIteration(g, l) ==
    LET vertex == l.work[Len(l.work)]
        rest == SubSeq(l.work, 1, Len(l.work) - 1)
    IN IF vertex \notin l.visited
       THEN Locals(l.visited \cup {vertex},
                   PushUnvisited(Reverse(get_neighbors(g, vertex)), 1,
                                 l.visited \cup {vertex}, rest),
                   Append(l.result, vertex), 0)
       ELSE Locals(l.visited, rest, l.result, 0)

\* One iteration of the while loop of prim.
PrimIteration(g, l) ==
    LET sorted == SortTuples(l.work)
        weight == sorted[1][1]
        u == sorted[1][2]
        v == sorted[1][3]
        rest == Tail(sorted)
    IN IF v \in l.visited
       THEN Locals(l.visited, rest, l.result, l.aux)
       ELSE Locals(l.visited \cup {v},
                   Frontier(v, get_neighbors(g, v), 1, l.visited \cup {v}, rest),
                   Append(l.result, <<u, v, weight>>), l.aux + weight)

\* One iteration of the while loop of kahn_algorithm.
KahnIteration(g, l) ==
    LET vertex == Head(l.work)
        s == KahnFor(get_neighbors(g, vertex), 1, l.aux, Tail(l.work))
    IN Locals({}, s.queue, Append(l.result, vertex), s.in_degree)

\* find calls itself on the parent of its vertex.
FindIteration(u, l) ==
    Locals({}, Append(l.work, u.parent[l.work[Len(l.work)]]), <<>>, 0)

\* The running call makes one iteration of its loop. The traversals raise
\* from get_neighbors when the vertex at hand, the start, is no vertex.
LoopStep ==
    /\ Running
    /\ LoopContinues
    /\ CASE call.op = "BFS.traverse"
              -> IF ~HasNeighbors(graph, Head(Frame.work))
                 THEN Query(call.op, call.args, Raise(VertexNotFound))
                 ELSE Enters(call.op, call.args, BfsIteration(graph, Frame))
         [] call.op = "DFS.traverse_iterative"
              -> IF ~HasNeighbors(graph, Frame.work[Len(Frame.work)])
                 THEN Query(call.op, call.args, Raise(VertexNotFound))
                 ELSE Enters(call.op, call.args, DfsIteration(graph, Frame))
         [] call.op = "prim"
              -> Enters(call.op, call.args, PrimIteration(graph, Frame))
         [] call.op = "kahn_algorithm"
              -> Enters(call.op, call.args, KahnIteration(graph, Frame))
         [] call.op = "UnionFind.find"
              -> Enters(call.op, call.args, FindIteration(union_find, Frame))

\* The running call leaves its loop and returns or raises; the calls of
\* find return one after the other, each setting the parent of its vertex
\* to the root.
LoopExit ==
    /\ Running
    /\ ~LoopContinues
    /\ CASE call.op \in {"BFS.traverse", "DFS.traverse_iterative"}
              -> Query(call.op, call.args, Return(Frame.result))
         [] call.op = "prim"
              -> Query(call.op, call.args, Return(<<Frame.result, Frame.aux>>))
         [] call.op = "kahn_algorithm"
              -> Query(call.op, call.args,
                       IF Len(Frame.result) # Len(vertices)
                       THEN Raise(CycleDetected) ELSE Return(Frame.result))
         [] call.op = "UnionFind.find"
              -> LET root == Frame.work[Len(Frame.work)]
                 IN /\ call' = Called(call.op, call.args, Return(root))
                    /\ union_find' =
                          [union_find EXCEPT !.parent =
                              [v \in DOMAIN @ |->
                                  IF InList(v, Frame.work) THEN root ELSE @[v]]]
                    /\ UNCHANGED <<vertices, vertex_count, is_directed,
                                   is_weighted, adj_list, adj_matrix, joined>>

\* The calls that enter a loop on a graph.
LoopStarts ==
    \/ \E s \in Vertex : StartBfsTraverse(s)
    \/ \E s \in Vertex : StartDfsTraverseIterative(s)
    \/ \E s \in Vertex : StartPrim(s)
    \/ StartKahn

\* The library with its loops taken by step: a caller builds a graph with
\* the default weight and calls the algorithms with a work list, or makes
\* a UnionFind, joins its elements and calls find; a call that has started
\* goes on until it returns or raises.
TerminationInit == (Init /\ ~is_weighted) \/ UnionFindNew
TerminationNext ==
    \/ NoUnionFind /\ ~Running /\ Build
    \/ NoUnionFind /\ LoopStarts
    \/ \E v1, v2 \in 1..MaxElement : ~Running /\ UnionFind_union(v1, v2)
    \/ \E v \in 1..MaxElement : StartFind(v)
    \/ LoopStep
    \/ LoopExit
TerminationSpec ==
    /\ TerminationInit
    /\ [][TerminationNext]_vars
    /\ WF_vars(LoopStep \/ LoopExit)

\* ------------------------------------------------- terms of the properties
\* The vertices one edge away from a vertex of S.
Successors(g, S) ==
    UNION {{g.adj_list[u][i][1] : i \in 1..Len(g.adj_list[u])} : u \in S}

\* The least set that holds S and is closed under Successors.
RECURSIVE Closure(_, _)
Closure(g, S) ==
    LET N == S \cup Successors(g, S)
    IN IF N = S THEN S ELSE Closure(g, N)

\* The vertices reachable from the vertex s, s included.
Reachable(g, s) == Closure(g, {s})

\* The graph has a directed cycle: some vertex is reachable from one of its
\* own successors (from itself, for a self-loop).
HasDirectedCycle(g) ==
    \E v \in DOMAIN g.adj_list : v \in Closure(g, Successors(g, {v}))

\* The sequence has no element twice.
NoRepeats(s) == \A i, j \in 1..Len(s) : s[i] = s[j] => i = j

\* order holds every vertex of g exactly once, and the source of every
\* adjacency entry before its destination.
IsTopologicalOrder(g, order) ==
    /\ NoRepeats(order)
    /\ Range(order) = Range(g.vertices)
    /\ \A u \in DOMAIN g.adj_list : \A v \in Successors(g, {u}) :
          Index(order, u) < Index(order, v)

\* A directed acyclic graph in which two edges converge on one vertex.
ConvergingDAG ==
    /\ is_directed
    /\ ~HasDirectedCycle(graph)
    /\ \E u, v, w \in DOMAIN adj_list :
          /\ u # v /\ u # w /\ v # w
          /\ w \in Successors(graph, {u}) /\ w \in Successors(graph, {v})
          /\ v \in Successors(graph, {u})

\* C1: on every directed acyclic graph kahn_algorithm returns a sequence
\* that holds every vertex exactly once and, for every edge (u, v) of the
\* adjacency lists, u before v.
C1_KahnTopologicalOrder ==
    (call.op = "kahn_algorithm" /\ is_directed /\ ~HasDirectedCycle(graph))
        => /\ call.status = "return"
           /\ IsTopologicalOrder(graph, call.val)

C1_Witness ==
    /\ call.op = "kahn_algorithm"
    /\ call.status = "return"
    /\ ConvergingDAG

\* C2: on every directed acyclic graph dfs_based returns a sequence that
\* holds every vertex exactly once and, for every edge (u, v) of the
\* adjacency lists, u before v.
C2_DfsTopologicalOrder ==
    (call.op = "dfs_based" /\ is_directed /\ ~HasDirectedCycle(graph))
        => /\ call.status = "return"
           /\ IsTopologicalOrder(graph, call.val)

C2_Witness ==
    /\ call.op = "dfs_based"
    /\ call.status = "return"
    /\ ConvergingDAG
    /\ Len(call.val) = MaxVertex

\* The call raised the cycle-detected error.
RaisedCycle(outcome) == outcome.status = "raise" /\ outcome.val = CycleDetected

\* C3: on every directed graph kahn_algorithm and dfs_based each raise the
\* cycle-detected error exactly when the graph has a directed cycle (a
\* self-loop is one), the one raises when the other does, and on a cyclic
\* graph neither returns.
C3_CycleAgreement ==
    (call.op \in {"kahn_algorithm", "dfs_based"} /\ is_directed)
        => /\ RaisedCycle(call) <=> HasDirectedCycle(graph)
           /\ HasDirectedCycle(graph) => call.status # "return"
           /\ RaisedCycle(Topo_kahn_algorithm(graph))
                 <=> RaisedCycle(Topo_dfs_based(graph))

\* A cycle through all the vertices, none of them a self-loop, made both
\* sorts raise.
C3_Witness ==
    /\ call.op \in {"kahn_algorithm", "dfs_based"}
    /\ is_directed
    /\ RaisedCycle(call)
    /\ Len(vertices) = MaxVertex
    /\ \A v \in DOMAIN adj_list :
          /\ v \notin Successors(graph, {v})
          /\ Closure(graph, Successors(graph, {v})) = DOMAIN adj_list

\* The number of edges of a shortest path from a vertex of S to e, which is
\* reachable from S, when the vertices of S are d edges from the start.
RECURSIVE Distance(_, _, _, _)
Distance(g, S, e, d) ==
    IF e \in S THEN d ELSE Distance(g, S \cup Successors(g, S), e, d + 1)

\* path is a path of g: every vertex of it is followed by one of its
\* neighbors.
IsPath(g, path) ==
    /\ Len(path) >= 1
    /\ \A i \in 1..Len(path) : path[i] \in DOMAIN g.adj_list
    /\ \A i \in 1..(Len(path) - 1) : path[i + 1] \in Successors(g, {path[i]})

\* C4: a path returned by BFS.shortest_path(graph, start, end) begins with
\* start, ends with end, follows edges of the graph, and no path from
\* start to end has fewer edges.
C4_ShortestPathMinimal ==
    (call.op = "BFS.shortest_path" /\ call.status = "return")
        => LET start == call.args[1]
               end == call.args[2]
               path == call.val
           IN /\ IsPath(graph, path)
              /\ path[1] = start
              /\ path[Len(path)] = end
              /\ end \in Reachable(graph, start)
              /\ Len(path) - 1 = Distance(graph, {start}, end, 0)

\* The one-edge path was returned although the first neighbor of start
\* is another vertex, from which a two-edge path leads to end.
C4_Witness ==
    /\ call.op = "BFS.shortest_path"
    /\ call.status = "return"
    /\ Len(call.val) = 2
    /\ LET start == call.args[1]
           end == call.args[2]
           first == adj_list[start][1][1]
       IN first \notin {start, end} /\ end \in Successors(graph, {first})

\* A two-edge path was returned.
C4_WitnessTwoEdges ==
    /\ call.op = "BFS.shortest_path"
    /\ call.status = "return"
    /\ Len(call.val) = 3

\* C5: BFS.shortest_path returns None exactly when end is not reachable
\* from start; it never raises, so it returns None when start or end is no
\* vertex; it returns <<start>> when start = end is a vertex.
C5_NoPathIffUnreachable ==
    call.op = "BFS.shortest_path"
        => LET start == call.args[1]
               end == call.args[2]
               reachable == /\ InList(start, vertices)
                            /\ end \in Reachable(graph, start)
           IN /\ call.status \in {"return", "none"}
              /\ call.status = "none" <=> ~reachable
              /\ (~InList(start, vertices) \/ ~InList(end, vertices))
                    => call.status = "none"
              /\ (start = end /\ InList(start, vertices))
                    => call.status = "return" /\ call.val = <<start>>

\* None was returned for a start that is no vertex of a graph that has
\* edges.
C5_Witness ==
    /\ call.op = "BFS.shortest_path"
    /\ call.status = "none"
    /\ ~InList(call.args[1], vertices)
    /\ InList(call.args[2], vertices)
    /\ EdgeCalls >= 1

\* None was returned for two vertices of the graph, the one with edges.
C5_WitnessUnreachable ==
    /\ call.op = "BFS.shortest_path"
    /\ call.status = "none"
    /\ InList(call.args[1], vertices)
    /\ InList(call.args[2], vertices)
    /\ adj_list[call.args[1]] # <<>>

\* C8: BFS.traverse from a vertex of the graph returns a sequence without
\* repetition whose elements are exactly the vertices reachable from start,
\* so as many as there are.
C8_BfsVisitsReachableOnce ==
    (call.op = "BFS.traverse" /\ InList(call.args[1], vertices))
        => /\ call.status = "return"
           /\ NoRepeats(call.val)
           /\ Range(call.val) = Reachable(graph, call.args[1])
           /\ Len(call.val) = Cardinality(Reachable(graph, call.args[1]))

\* BFS.traverse on a graph with a cycle and a vertex out of reach.
C8_Witness ==
    /\ call.op = "BFS.traverse"
    /\ call.status = "return"
    /\ Len(call.val) = 2
    /\ Len(vertices) = MaxVertex
    /\ HasDirectedCycle(graph)

\* C9: DFS.traverse and DFS.traverse_iterative from a vertex of the graph
\* each return a sequence without repetition whose elements are exactly
\* the vertices reachable from start.
C9_DfsVisitsReachableOnce ==
    (call.op \in {"DFS.traverse", "DFS.traverse_iterative"}
        /\ InList(call.args[1], vertices))
        => /\ call.status = "return"
           /\ NoRepeats(call.val)
           /\ Range(call.val) = Reachable(graph, call.args[1])

\* The iterative traversal on a graph where the second neighbor of start
\* is also a neighbor of the first: it is on the stack twice before its
\* first visit.
C9_Witness ==
    /\ call.op = "DFS.traverse_iterative"
    /\ call.status = "return"
    /\ LET start == call.args[1]
       IN /\ Len(adj_list[start]) = 2
          /\ LET a == adj_list[start][1][1]
                 b == adj_list[start][2][1]
             IN /\ a # start /\ b # start /\ a # b
                /\ b \in Successors(graph, {a})

\* The recursive traversal was called on a graph with a cycle.
C9_WitnessRecursive ==
    /\ call.op = "DFS.traverse"
    /\ call.status = "return"
    /\ Len(call.val) = MaxVertex
    /\ HasDirectedCycle(graph)

\* The positions in components of the components that hold v.
ComponentsOf(components, v) ==
    {i \in 1..Len(components) : v \in Range(components[i])}

\* C10: on an undirected graph BFS.connected_components returns a
\* partition of the vertices in which two vertices share a component
\* exactly when a path joins them; the components are in the
\* vertex-sequence order of their first vertices; a vertex whose only
\* edges are self-loops is a component of its own.
C10_ComponentsPartition ==
    (call.op = "BFS.connected_components" /\ ~is_directed)
        => LET components == call.val
               V == Range(vertices)
           IN /\ call.status = "return"
              /\ \A v \in V : Cardinality(ComponentsOf(components, v)) = 1
              /\ \A i \in 1..Len(components) :
                    /\ components[i] # <<>>
                    /\ NoRepeats(components[i])
                    /\ Range(components[i]) \subseteq V
              /\ \A u, v \in V :
                    (ComponentsOf(components, u) = ComponentsOf(components, v))
                        <=> v \in Reachable(graph, u)
              /\ \A i, j \in 1..Len(components) :
                    i < j => Index(vertices, components[i][1])
                                < Index(vertices, components[j][1])
              /\ \A v \in V :
                    (adj_list[v] # <<>> /\ Successors(graph, {v}) = {v})
                        => \E i \in 1..Len(components) : components[i] = <<v>>

\* Two components, the first of two vertices, the second a vertex whose
\* only edge is a self-loop.
C10_Witness ==
    /\ call.op = "BFS.connected_components"
    /\ ~is_directed
    /\ call.status = "return"
    /\ Len(call.val) = 2
    /\ Len(call.val[1]) = 2
    /\ LET v == call.val[2][1]
       IN adj_list[v] # <<>> /\ Successors(graph, {v}) = {v}

\* The undirected graph is connected: it has a vertex, and every vertex is
\* reachable from the first.
Connected(g) ==
    /\ g.vertices # <<>>
    /\ Reachable(g, g.vertices[1]) = Range(g.vertices)

\* The adjacency entries of g, each named by its vertex and its position:
\* the entry <<u, i>> is the edge from u to adj_list[u][i][1].
Entries(g) ==
    UNION {{<<u, i>> : i \in 1..Len(g.adj_list[u])} : u \in DOMAIN g.adj_list}
EntryEnd(g, e) == g.adj_list[e[1]][e[2]][1]
EntryWeight(g, e) == g.adj_list[e[1]][e[2]][2]

\* The vertices joined to a vertex of S by the pairs of P, S included.
RECURSIVE Joined(_, _)
Joined(P, S) ==
    LET N == S \cup {p[2] : p \in {q \in P : q[1] \in S}}
                 \cup {p[1] : p \in {q \in P : q[2] \in S}}
    IN IF N = S THEN S ELSE Joined(P, N)

\* The pairs of P, |V| - 1 of them, join all the vertices of V: a spanning
\* tree of V.
IsSpanningTree(V, P) ==
    /\ Cardinality(P) = Cardinality(V) - 1
    /\ \A v \in V : Joined(P, {v}) = V

RECURSIVE TotalWeight(_, _)
TotalWeight(g, T) ==
    IF T = {} THEN 0
    ELSE LET e == CHOOSE x \in T : TRUE
         IN EntryWeight(g, e) + TotalWeight(g, T \ {e})

\* The sets of adjacency entries that are spanning trees of g.
SpanningTreesOf(g) ==
    {T \in SUBSET Entries(g) :
        /\ Cardinality(T) = Len(g.vertices) - 1
        /\ IsSpanningTree(Range(g.vertices),
                          {<<e[1], EntryEnd(g, e)>> : e \in T})
        /\ Cardinality({<<e[1], EntryEnd(g, e)>> : e \in T}) = Cardinality(T)}

\* The least total weight of a spanning tree of the connected graph g.
MinimumSpanningWeight(g) ==
    LET W == {TotalWeight(g, T) : T \in SpanningTreesOf(g)}
    IN CHOOSE w \in W : \A x \in W : w <= x

\* The edges returned by kruskal or prim are edges of g, V - 1 of them, and
\* form a spanning tree; total is the sum of their weights.
ReturnsSpanningTree(g, edges, total) ==
    /\ Len(edges) = Len(g.vertices) - 1
    /\ \A i \in 1..Len(edges) :
          \E e \in Entries(g) :
              /\ e[1] = edges[i][1]
              /\ EntryEnd(g, e) = edges[i][2]
              /\ EntryWeight(g, e) = edges[i][3]
    /\ IsSpanningTree(Range(g.vertices),
                      {<<edges[i][1], edges[i][2]>> : i \in 1..Len(edges)})
    /\ total = SumSeq([i \in 1..Len(edges) |-> edges[i][3]])

\* C6: on every connected undirected graph kruskal returns exactly V - 1
\* edges that form a spanning tree of least total weight among all the
\* spanning trees of the graph, and the total_weight it returns is the sum
\* of the weights of the edges it returns.
C6_KruskalMinimumSpanningTree ==
    (call.op = "kruskal" /\ ~is_directed /\ Connected(graph))
        => /\ call.status = "return"
           /\ ReturnsSpanningTree(graph, call.val[1], call.val[2])
           /\ call.val[2] = MinimumSpanningWeight(graph)

\* No vertex has two adjacency entries for the same other vertex.
NoParallelEdges(g) ==
    \A u \in DOMAIN g.adj_list : \A i, j \in 1..Len(g.adj_list[u]) :
        (i # j /\ g.adj_list[u][i][1] = g.adj_list[u][j][1])
            => g.adj_list[u][i][1] = u

\* What kruskal does achieve on a connected undirected graph: a spanning
\* tree, and one of least weight when no two edges join the same two
\* vertices (of parallel edges it keeps the one it meets first, whatever
\* its weight).
KruskalSpanningTree ==
    (call.op = "kruskal" /\ ~is_directed /\ Connected(graph))
        => /\ call.status = "return"
           /\ ReturnsSpanningTree(graph, call.val[1], call.val[2])
           /\ NoParallelEdges(graph)
                 => call.val[2] = MinimumSpanningWeight(graph)

\* C7: on every connected weighted undirected graph, parallel edges and
\* self-loops included, and for every start vertex, kruskal(graph) and
\* prim(graph, start) return the same total weight.
C7_KruskalPrimSameWeight ==
    (call.op = "kruskal" /\ ~is_directed /\ is_weighted /\ Connected(graph))
        => \A start \in Range(vertices) :
              /\ call.status = "return"
              /\ MST_prim(graph, start).status = "return"
              /\ MST_prim(graph, start).val[2] = call.val[2]

\* C11: on every directed graph DFS.has_cycle returns True exactly when the
\* graph has a directed cycle (a self-loop is one); so it returns False on
\* a DAG in which two paths converge on one vertex.
C11_HasCycleDirected ==
    (call.op = "DFS.has_cycle" /\ is_directed)
        => /\ call.status = "return"
           /\ call.val \in BOOLEAN
           /\ call.val <=> HasDirectedCycle(graph)

\* has_cycle returned False on a DAG in which two paths converge.
C11_Witness ==
    /\ call.op = "DFS.has_cycle"
    /\ call.status = "return"
    /\ call.val = FALSE
    /\ ConvergingDAG

\* has_cycle returned True on a graph whose only cycle is a self-loop.
C11_WitnessSelfLoop ==
    /\ call.op = "DFS.has_cycle"
    /\ is_directed
    /\ call.status = "return"
    /\ call.val = TRUE
    /\ EdgeCalls = 1

\* The largest number of the finite set S of numbers, 0 when S is empty.
MaxOf(S) == IF S = {} THEN 0 ELSE CHOOSE x \in S : \A y \in S : y <= x

\* The largest total weight of a directed path of the acyclic graph g that
\* starts at the vertex v; the path of no edge weighs 0.
RECURSIVE HeaviestFrom(_, _)
HeaviestFrom(g, v) ==
    MaxOf({0} \cup {g.adj_list[v][i][2] + HeaviestFrom(g, g.adj_list[v][i][1]) :
                      i \in 1..Len(g.adj_list[v])})

\* The largest total weight of a directed path of the acyclic graph g.
HeaviestPath(g) == MaxOf({HeaviestFrom(g, v) : v \in DOMAIN g.adj_list})

\* C12: on every directed acyclic graph with non-negative weights
\* find_longest_path returns as distance the largest total weight of a
\* directed path of the graph, 0 when the graph has no edges.
C12_LongestPathDistance ==
    (call.op = "find_longest_path" /\ is_directed /\ ~HasDirectedCycle(graph))
        => /\ call.status = "return"
           /\ call.val[1] = HeaviestPath(graph)

\* What find_longest_path does achieve: the distance of C12 on every
\* directed acyclic graph that has a vertex; on the graph without
\* vertices max() raises.
LongestPathDistanceWithVertices ==
    (call.op = "find_longest_path" /\ is_directed /\ ~HasDirectedCycle(graph))
        => IF vertices = <<>>
           THEN call.status = "raise" /\ call.val = EmptyMax
           ELSE call.status = "return" /\ call.val[1] = HeaviestPath(graph)

\* find_longest_path returned on a weighted DAG in which the heaviest path
\* has two edges and is not made of the edges met first.
LongestPathTwoEdges ==
    /\ call.op = "find_longest_path"
    /\ call.status = "return"
    /\ is_weighted
    /\ ConvergingDAG
    /\ Len(call.val[2]) = 3
    /\ call.val[1] > MaxWeight

\* C13: after construction and after every add_vertex and add_edge call,
\* vertex_count is the length of the vertex sequence and the adjacency
\* matrix is square, of vertex_count rows and vertex_count columns.
C13_CountAndMatrixShape ==
    /\ vertex_count = Len(vertices)
    /\ DOMAIN adj_matrix = 1..vertex_count
    /\ \A i \in 1..vertex_count : DOMAIN adj_matrix[i] = 1..vertex_count

\* An add_edge call that added its two endpoints to a graph that already
\* had a vertex.
C13_Witness ==
    /\ call.op = "add_edge"
    /\ vertex_count = MaxVertex
    /\ EdgeCalls = 1
    /\ adj_list[vertices[1]] = <<>>

\* The number of entries equal to entry in the adjacency list of u.
CountEntry(al, u, entry) ==
    Cardinality({i \in 1..Len(al[u]) : al[u][i] = entry})

\* C14: in an undirected graph, for all distinct vertices u and v and every
\* weight w, u's adjacency list has as many entries (v, w) as v's list has
\* entries (u, w).
C14_UndirectedSymmetry ==
    ~is_directed
        => \A u, v \in DOMAIN adj_list : \A w \in Weight :
              u # v => CountEntry(adj_list, u, <<v, w>>)
                          = CountEntry(adj_list, v, <<u, w>>)

\* An undirected graph with the same edge added twice and another edge of
\* the same two vertices.
C14_Witness ==
    /\ ~is_directed
    /\ call.op = "add_edge"
    /\ \E u, v \in DOMAIN adj_list : \E w \in Weight :
          /\ u # v
          /\ CountEntry(adj_list, u, <<v, w>>) = 2
          /\ Len(adj_list[u]) = MaxEdges

\* The length of the adjacency list of v, 0 when v is no vertex yet.
ListLen(al, v) == IF v \in DOMAIN al THEN Len(al[v]) ELSE 0

\* The number of adjacency entries of the graph.
EntryCount(al) == Cardinality(UNION {{<<u, i>> : i \in 1..Len(al[u])} : u \in DOMAIN al})

\* C15: on an undirected graph one add_edge(v, v) call adds exactly one
\* entry to v's adjacency list, and one add_edge(u, v) call with u # v adds
\* two entries in all, one at each endpoint.
C15_SelfLoopOneEntry ==
    [][\A s, d \in Vertex : \A w \in Weight :
          (~is_directed /\ add_edge(s, d, w))
              => /\ EntryCount(adj_list') = EntryCount(adj_list)
                                               + (IF s = d THEN 1 ELSE 2)
                 /\ ListLen(adj_list', s) = ListLen(adj_list, s) + 1
                 /\ ListLen(adj_list', d) = ListLen(adj_list, d) + 1]_vars

\* C15 as the code has it: on an undirected graph one add_edge(v, v) call
\* adds two entries (v, w) to v's adjacency list, and one add_edge(u, v)
\* call with u # v adds two entries in all, one at each endpoint.
C15_SelfLoopTwoEntries ==
    [][\A s, d \in Vertex : \A w \in Weight :
          (~is_directed /\ add_edge(s, d, w))
              => /\ EntryCount(adj_list') = EntryCount(adj_list) + 2
                 /\ IF s = d
                    THEN /\ ListLen(adj_list', s) = ListLen(adj_list, s) + 2
                         /\ CountEntry(adj_list', s, <<s, w>>)
                               = (IF s \in DOMAIN adj_list
                                  THEN CountEntry(adj_list, s, <<s, w>>) ELSE 0) + 2
                    ELSE /\ ListLen(adj_list', s) = ListLen(adj_list, s) + 1
                         /\ ListLen(adj_list', d) = ListLen(adj_list, d) + 1
                         /\ adj_list'[s][Len(adj_list'[s])] = <<d, w>>
                         /\ adj_list'[d][Len(adj_list'[d])] = <<s, w>>]_vars

\* An undirected graph after one self-loop call on a vertex that had an
\* edge to another vertex.
C15_Witness ==
    /\ ~is_directed
    /\ call.op = "add_edge"
    /\ EdgeCalls = 2
    /\ \E v \in DOMAIN adj_list : \E w \in Weight :
          /\ Len(adj_list[v]) = 3
          /\ adj_list[v][1][1] # v
          /\ adj_list[v][2] = <<v, w>>
          /\ adj_list[v][3] = <<v, w>>

\* Cell [i][j] of the adjacency matrix marks an edge.
MarksEdge(i, j) ==
    IF is_weighted THEN adj_matrix[i][j] # Inf ELSE adj_matrix[i][j] = 1

\* Vertex v occurs in the adjacency list of vertex u.
InAdjList(u, v) == \E k \in 1..Len(adj_list[u]) : adj_list[u][k][1] = v

\* C16: for all vertex positions i # j, cell [i][j] of the adjacency matrix
\* marks an edge iff vertices[j] occurs in the adjacency list of
\* vertices[i]; an edge added before a later vertex insertion is still in
\* the matrix.
C16_MatrixAgreesWithLists ==
    \A i, j \in 1..Len(vertices) :
        i # j => (MarksEdge(i, j) <=> InAdjList(vertices[i], vertices[j]))

\* What the matrix does keep: a marked cell always has its edge in the
\* adjacency lists.
MatrixWithinLists ==
    \A i, j \in 1..Len(vertices) :
        (i # j /\ MarksEdge(i, j)) => InAdjList(vertices[i], vertices[j])

\* An edge of the adjacency lists that a later vertex insertion has taken
\* out of the matrix.
MatrixLostEdge ==
    /\ call.op = "add_vertex"
    /\ \E i, j \in 1..Len(vertices) :
          i # j /\ InAdjList(vertices[i], vertices[j]) /\ ~MarksEdge(i, j)

\* The vertex sequence, the adjacency-list keys and the neighbors named
\* in the lists agree.
VerticesWellFormed ==
    /\ NoRepeats(vertices)
    /\ DOMAIN adj_list = Range(vertices)
    /\ \A u \in DOMAIN adj_list : \A k \in 1..Len(adj_list[u]) :
          adj_list[u][k][1] \in Range(vertices)

\* Every step keeps the vertices it found, in their places, and appends
\* the new ones.
KeepsInsertionOrder ==
    /\ Len(vertices) <= Len(vertices')
    /\ \A i \in 1..Len(vertices) : vertices'[i] = vertices[i]

\* C17: after any sequence of add_vertex/add_edge calls the vertex
\* sequence has no duplicates and keeps insertion order, the keys of the
\* adjacency lists are the vertices, and every neighbor named in an
\* adjacency list is a vertex.
C17_VerticesWellFormed ==
    /\ []VerticesWellFormed
    /\ [][KeepsInsertionOrder]_vars

\* A graph whose vertices were not inserted in sorted order, after an
\* add_vertex call that followed edge insertions.
C17_Witness ==
    /\ call.op = "add_vertex"
    /\ Len(vertices) = MaxVertex
    /\ vertices[1] > vertices[2]
    /\ EdgeCalls = 2

\* The call raised the error of a graph of the wrong kind.
RaisedWrongKind == call.status = "raise" /\ call.val = WrongGraphKind

\* C18: kruskal and prim raise the wrong-graph-kind error on every directed
\* graph, and dfs_based, kahn_algorithm and find_longest_path raise it on
\* every undirected graph, whatever the graph holds and before any other
\* failure of the call.
C18_WrongKindFirst ==
    /\ (call.op \in {"kruskal", "prim"} /\ is_directed) => RaisedWrongKind
    /\ (call.op \in {"dfs_based", "kahn_algorithm", "find_longest_path"}
           /\ ~is_directed) => RaisedWrongKind

\* prim called on a directed graph with a start that is no vertex of it.
C18_Witness ==
    /\ call.op = "prim"
    /\ is_directed
    /\ call.args # <<>>
    /\ ~InList(call.args[1], vertices)
    /\ EdgeCalls = 1
    /\ RaisedWrongKind

\* prim called with no start on the directed graph without vertices.
C18_WitnessEmpty ==
    /\ call.op = "prim"
    /\ is_directed
    /\ call.args = <<>>
    /\ vertices = <<>>
    /\ RaisedWrongKind

\* find_longest_path called on an undirected graph with a cycle.
C18_WitnessCyclic ==
    /\ call.op = "find_longest_path"
    /\ ~is_directed
    /\ EdgeCalls = MaxEdges
    /\ RaisedWrongKind

\* The call raised the error of a vertex that is not in the graph.
RaisedVertexNotFound == call.status = "raise" /\ call.val = VertexNotFound

\* What the lookups answer: get_neighbors raises exactly for a vertex
\* that is not in the graph and returns the adjacency list otherwise; a
\* traversal from a start that is no vertex raises the same error.
LookupOutcome ==
    /\ call.op = "get_neighbors"
          => IF InList(call.args[1], vertices)
             THEN call.status = "return" /\ call.val = adj_list[call.args[1]]
             ELSE RaisedVertexNotFound
    /\ (call.op \in {"BFS.traverse", "DFS.traverse", "DFS.traverse_iterative"}
           /\ ~InList(call.args[1], vertices)) => RaisedVertexNotFound

\* A get_neighbors call leaves the graph as it was: the vertex asked for
\* is not created.
LookupFrame ==
    call'.op = "get_neighbors"
        => UNCHANGED <<vertices, vertex_count, is_directed, is_weighted,
                       adj_list, adj_matrix>>

\* C19: get_neighbors(v) fails with the vertex-not-found error exactly
\* when v is no vertex, and leaves the graph unchanged; BFS.traverse,
\* DFS.traverse and DFS.traverse_iterative from a start that is no vertex
\* fail with the same error.
C19_VertexNotFound ==
    /\ []LookupOutcome
    /\ [][LookupFrame]_vars

\* get_neighbors failed for a vertex missing from a graph that has an
\* edge, and the vertex is still missing.
C19_Witness ==
    /\ call.op = "get_neighbors"
    /\ RaisedVertexNotFound
    /\ EdgeCalls = 1
    /\ call.args[1] \notin DOMAIN adj_list

\* The iterative DFS failed from a start missing from a graph with edges.
C19_WitnessTraversal ==
    /\ call.op = "DFS.traverse_iterative"
    /\ RaisedVertexNotFound
    /\ EdgeCalls = 2
    /\ ~InList(call.args[1], vertices)

\* The names of the calls of the algorithm classes.
AlgorithmCalls ==
    {"BFS.traverse", "BFS.shortest_path", "BFS.connected_components",
     "DFS.traverse", "DFS.traverse_iterative", "DFS.has_cycle",
     "kruskal", "prim", "dfs_based", "kahn_algorithm", "find_longest_path"}

C20_WitnessRaise ==
    /\ call.op = "kahn_algorithm"
    /\ call.status = "raise"
    /\ call.val = CycleDetected
    /\ \E i, j \in 1..Len(vertices) : i # j /\ adj_matrix[i][j] = 1

\* C22: DFS.has_cycle returns True on every undirected graph that has an
\* edge, a lone self-loop and trees included, and False on every graph
\* without edges.
C22_HasCycleUndirected ==
    call.op = "DFS.has_cycle"
        => /\ call.status = "return"
           /\ ~is_directed => (call.val <=> EdgeCalls >= 1)
           /\ EdgeCalls = 0 => (call.val = FALSE)

\* has_cycle answered True on an undirected tree: two edges from the
\* first vertex to the two others.
C22_Witness ==
    /\ call.op = "DFS.has_cycle"
    /\ ~is_directed
    /\ call.val = TRUE
    /\ Len(vertices) = 3
    /\ EdgeCalls = 2
    /\ Len(adj_list[vertices[1]]) = 2
    /\ adj_list[vertices[1]][1][1] = vertices[2]
    /\ adj_list[vertices[1]][2][1] = vertices[3]

\* has_cycle answered False on a graph with vertices and no edge.
C22_WitnessNoEdges ==
    /\ call.op = "DFS.has_cycle"
    /\ call.val = FALSE
    /\ Len(vertices) = MaxVertex
    /\ EdgeCalls = 0

\* The number of connected components of the undirected graph g.
ComponentCount(g) ==
    Cardinality({Reachable(g, v) : v \in Range(g.vertices)})

\* The endpoints of the first n edges of the sequence.
PairsUpTo(edges, n) == {<<edges[i][1], edges[i][2]>> : i \in 1..n}

\* Every edge of the sequence is an edge of g with its weight, and joins
\* two vertices that the edges before it had not joined: the edges are
\* acyclic.
IsForest(g, edges) ==
    \A i \in 1..Len(edges) :
        /\ \E e \in Entries(g) :
              /\ e[1] = edges[i][1]
              /\ EntryEnd(g, e) = edges[i][2]
              /\ EntryWeight(g, e) = edges[i][3]
        /\ edges[i][2] \notin Joined(PairsUpTo(edges, i - 1), {edges[i][1]})

\* kruskal returned a forest of g with one edge less than vertices for
\* each connected component.
ReturnedSpanningForest ==
    /\ call.status = "return"
    /\ IsForest(graph, call.val[1])
    /\ Len(call.val[1]) = Len(vertices) - ComponentCount(graph)
    /\ ComponentCount(graph) > 1 => Len(call.val[1]) < Len(vertices) - 1

\* C23: on every undirected graph, connected or not, kruskal returns
\* without error an acyclic edge set with exactly V minus the number of
\* connected components edges, fewer than V - 1 on a disconnected graph,
\* and never more than V - 1.
C23_KruskalSpanningForest ==
    (call.op = "kruskal" /\ ~is_directed)
        => /\ ReturnedSpanningForest
           /\ Len(call.val[1]) <= Len(vertices) - 1

\* C23 as the code has it: the same, with never more than V - 1 edges on
\* a graph that has a vertex; on the graph without vertices kruskal
\* returns no edge, which is V edges and more than V - 1.
C23_KruskalSpanningForestOfVertices ==
    (call.op = "kruskal" /\ ~is_directed)
        => /\ ReturnedSpanningForest
           /\ IF vertices = <<>>
              THEN call.val = <<<<>>, 0>>
              ELSE Len(call.val[1]) <= Len(vertices) - 1

\* kruskal returned one edge on a graph of three vertices in two
\* components, built with two add_edge calls.
C23_Witness ==
    /\ call.op = "kruskal"
    /\ ~is_directed
    /\ call.status = "return"
    /\ Len(vertices) = 3
    /\ ComponentCount(graph) = 2
    /\ EdgeCalls = 2
    /\ Len(call.val[1]) = 1

\* The vertices prim has visited when it accepts edge number n + 1: the
\* start and the destinations of the first n edges.
VisitedUpTo(start, edges, n) == {start} \cup {edges[i][2] : i \in 1..n}

\* The sets of adjacency entries of g that are spanning trees of the
\* vertex set C, a connected component of g.
ComponentSpanningTrees(g, C) ==
    {T \in SUBSET {e \in Entries(g) : e[1] \in C} :
        /\ Cardinality(T) = Cardinality(C) - 1
        /\ IsSpanningTree(C, {<<e[1], EntryEnd(g, e)>> : e \in T})
        /\ Cardinality({<<e[1], EntryEnd(g, e)>> : e \in T}) = Cardinality(T)}

\* The least total weight of a spanning tree of the component C of g.
MinimumComponentWeight(g, C) ==
    LET W == {TotalWeight(g, T) : T \in ComponentSpanningTrees(g, C)}
    IN CHOOSE w \in W : \A x \in W : w <= x

\* The start vertex of the prim call recorded: the argument, or the
\* first vertex when none was given.
PrimStart == IF call.args = <<>> THEN vertices[1] ELSE call.args[1]

\* The prim call recorded had a start vertex of the graph.
PrimStartInGraph ==
    IF call.args = <<>> THEN vertices # <<>> ELSE InList(call.args[1], vertices)

\* C24: for every undirected graph and start vertex in it, prim returns a
\* minimum spanning tree of the connected component of start: the edges
\* are edges of the graph, each goes from a vertex visited before to one
\* not visited before (so no stale frontier entry is accepted), they reach
\* exactly the vertices reachable from start, and their total weight is
\* the returned total and the least of a spanning tree of the component.
C24_PrimComponentMST ==
    (call.op = "prim" /\ ~is_directed /\ PrimStartInGraph)
        => LET edges == call.val[1]
               C == Reachable(graph, PrimStart)
           IN /\ call.status = "return"
              /\ \A i \in 1..Len(edges) :
                    /\ \E e \in Entries(graph) :
                          /\ e[1] = edges[i][1]
                          /\ EntryEnd(graph, e) = edges[i][2]
                          /\ EntryWeight(graph, e) = edges[i][3]
                    /\ edges[i][1] \in VisitedUpTo(PrimStart, edges, i - 1)
                    /\ edges[i][2] \notin VisitedUpTo(PrimStart, edges, i - 1)
              /\ VisitedUpTo(PrimStart, edges, Len(edges)) = C
              /\ Len(edges) = Cardinality(C) - 1
              /\ call.val[2] = SumSeq([i \in 1..Len(edges) |-> edges[i][3]])
              /\ call.val[2] = MinimumComponentWeight(graph, C)

\* prim returned the lighter of two parallel edges from a start whose
\* component leaves a vertex out, with the heavier one left stale in the
\* frontier.
C24_Witness ==
    /\ call.op = "prim"
    /\ ~is_directed
    /\ is_weighted
    /\ call.args # <<>>
    /\ call.status = "return"
    /\ Len(vertices) = 3
    /\ Cardinality(Reachable(graph, call.args[1])) = 2
    /\ Len(adj_list[call.args[1]]) = 2
    /\ adj_list[call.args[1]][1][2] = MaxWeight
    /\ adj_list[call.args[1]][2][2] = 1
    /\ call.val[2] = 1

\* prim returned a tree of all three vertices of a triangle.
C24_WitnessTriangle ==
    /\ call.op = "prim"
    /\ ~is_directed
    /\ call.status = "return"
    /\ Len(call.val[1]) = 2
    /\ EdgeCalls = 3
    /\ \A v \in Range(vertices) : Len(adj_list[v]) = 2

\* In a weighted graph every cell off the diagonal without an edge in
\* the adjacency lists holds the sentinel inf.
OffDiagonalSentinel ==
    is_weighted
        => \A i, j \in 1..Len(vertices) :
              (i # j /\ ~InAdjList(vertices[i], vertices[j]))
                  => adj_matrix[i][j] = Inf

\* C25: in a weighted graph, after any sequence of add_vertex/add_edge
\* calls, self-loop edges included, every diagonal cell of the adjacency
\* matrix is 0 and every off-diagonal cell without an edge holds the
\* sentinel inf.
C25_WeightedMatrixCells ==
    /\ is_weighted => \A i \in 1..Len(vertices) : adj_matrix[i][i] = 0
    /\ OffDiagonalSentinel

\* What the code keeps of it: the off-diagonal sentinel, and a diagonal
\* cell that is 0 or the weight of a self-loop of its vertex.
WeightedMatrixDiagonal ==
    /\ OffDiagonalSentinel
    /\ is_weighted
          => \A i \in 1..Len(vertices) :
                \/ adj_matrix[i][i] = 0
                \/ \E k \in 1..Len(adj_list[vertices[i]]) :
                      adj_list[vertices[i]][k] = <<vertices[i], adj_matrix[i][i]>>

\* A weighted graph after add_edge(v, v, w): the diagonal cell of v holds
\* w.
DiagonalHoldsWeight ==
    /\ is_weighted
    /\ call.op = "add_edge"
    /\ \E i \in 1..Len(vertices) : adj_matrix[i][i] = MaxWeight

\* add_vertex(v) twice gives the graph that add_vertex(v) once gives.
AddVertexTwice ==
    \A v \in Vertex :
        AddVertexTo(AddVertexTo(graph, v), v) = AddVertexTo(graph, v)

\* An add_vertex(v) step from a graph that has v changes nothing of the
\* graph.
AddVertexPresent ==
    \A v \in Vertex :
        (InList(v, vertices) /\ call'.op = "add_vertex" /\ add_vertex(v))
            => UNCHANGED <<vertices, vertex_count, is_directed, is_weighted,
                           adj_list, adj_matrix>>

\* C26: add_vertex(v) called when v is a vertex leaves the vertex
\* sequence, vertex_count, every adjacency list and every cell of the
\* adjacency matrix unchanged, so add_vertex(v); add_vertex(v) yields the
\* graph of a single add_vertex(v).
C26_AddVertexIdempotent ==
    /\ []AddVertexTwice
    /\ [][AddVertexPresent]_vars

\* The state after an add_vertex call with the matrix still marking an
\* edge: the vertex was there already, or the matrix would be fresh.
C26_Witness ==
    /\ call.op = "add_vertex"
    /\ \E i, j \in 1..Len(vertices) : i # j /\ MarksEdge(i, j)

\* The largest total weight of a directed path of the acyclic graph g that
\* ends at the vertex v; the path of no edge weighs 0.
RECURSIVE HeaviestInto(_, _)
HeaviestInto(g, v) ==
    MaxOf({0} \cup {EntryWeight(g, e) + HeaviestInto(g, e[1]) :
                      e \in {x \in Entries(g) : EntryEnd(g, x) = v}})

\* The total weights the sequence of vertices can have as a path of g:
\* one for each choice of an adjacency entry between every two
\* consecutive vertices, none if two of them have no entry.
RECURSIVE PathWeights(_, _)
PathWeights(g, path) ==
    IF Len(path) <= 1 THEN {0}
    ELSE {EntryWeight(g, e) + rest :
            e \in {x \in Entries(g) : x[1] = path[1] /\ EntryEnd(g, x) = path[2]},
            rest \in PathWeights(g, Tail(path))}

\* The first vertex of the vertex sequence of g at which a heaviest path
\* of g ends.
FirstHeaviestEnd(g) ==
    g.vertices[CHOOSE i \in 1..Len(g.vertices) :
        /\ HeaviestInto(g, g.vertices[i]) = HeaviestPath(g)
        /\ \A j \in 1..(i - 1) : HeaviestInto(g, g.vertices[j]) < HeaviestPath(g)]

\* C27: for every directed acyclic graph the path returned by
\* find_longest_path is a path of the graph whose weight is the returned
\* distance: it starts at a vertex without predecessor (no edge of
\* positive weight leads into it), every two consecutive vertices are
\* joined by an edge, the weights of edges along it sum to the returned
\* distance, and it ends at the first vertex of the vertex sequence that
\* attains the maximum distance.
C27_LongestPathIsPath ==
    (call.op = "find_longest_path" /\ is_directed /\ ~HasDirectedCycle(graph)
        /\ call.status = "return")
        => LET distance == call.val[1]
               path == call.val[2]
           IN /\ path # <<>>
              /\ \A i \in 1..Len(path) : InList(path[i], vertices)
              /\ HeaviestInto(graph, path[1]) = 0
              /\ \A i \in 1..(Len(path) - 1) : InAdjList(path[i], path[i + 1])
              /\ distance \in PathWeights(graph, path)
              /\ distance = HeaviestInto(graph, path[Len(path)])
              /\ path[Len(path)] = FirstHeaviestEnd(graph)

\* find_longest_path returned a path of two edges whose first edge is the
\* heavier of two parallel edges, the one met first.
C27_Witness ==
    /\ call.op = "find_longest_path"
    /\ call.status = "return"
    /\ is_weighted
    /\ Len(call.val[2]) = 3
    /\ LET first == call.val[2][1]
       IN /\ Len(adj_list[first]) = 2
          /\ adj_list[first][1] = <<call.val[2][2], MaxWeight>>
          /\ adj_list[first][2] = <<call.val[2][2], 1>>
    /\ call.val[1] > MaxWeight

\* find_longest_path returned the first vertex alone on a graph of three
\* vertices without edges, where every vertex attains the maximum 0.
C27_WitnessTie ==
    /\ call.op = "find_longest_path"
    /\ call.status = "return"
    /\ Len(vertices) = MaxVertex
    /\ EdgeCalls = 0
    /\ call.val = <<0, <<vertices[1]>>>>

\* C28: for every graph and every start vertex in it DFS.traverse_iterative
\* returns the sequence that the recursive DFS.traverse returns.
C28_IterativeIsRecursive ==
    /\ (call.op = "DFS.traverse_iterative" /\ InList(call.args[1], vertices))
          => /\ call.status = "return"
             /\ DFS_traverse(graph, call.args[1]).status = "return"
             /\ call.val = DFS_traverse(graph, call.args[1]).val
    /\ (call.op = "DFS.traverse" /\ InList(call.args[1], vertices))
          => /\ call.status = "return"
             /\ DFS_traverse_iterative(graph, call.args[1]).status = "return"
             /\ call.val = DFS_traverse_iterative(graph, call.args[1]).val

\* The iterative DFS returned three vertices from a start with two
\* neighbors of which the first leads to the second: the second is on
\* the stack twice, and is visited from the first.
C28_Witness ==
    /\ call.op = "DFS.traverse_iterative"
    /\ is_directed
    /\ call.status = "return"
    /\ Len(call.val) = 3
    /\ EdgeCalls = 3
    /\ Len(adj_list[call.val[1]]) = 2
    /\ adj_list[call.val[1]][1][1] = call.val[2]
    /\ adj_list[call.val[1]][2][1] = call.val[3]
    /\ InAdjList(call.val[2], call.val[3])

\* The partition of the elements of the UnionFind u that its roots define:
\* two elements are in one set when the parent chains from them end at
\* the same root.
RECURSIVE RootOf(_, _)
RootOf(u, v) == IF u.parent[v] = v THEN v ELSE RootOf(u, u.parent[v])
Partition(u) ==
    {{b \in DOMAIN u.parent : RootOf(u, b) = RootOf(u, a)} : a \in DOMAIN u.parent}

\* find(a) == find(b) exactly for the elements a and b that the unions
\* made so far have joined.
FindAgreesWithUnions ==
    /\ Partition(union_find) = joined
    /\ \A a, b \in DOMAIN union_find.parent :
          (UF_find(union_find, a).root
              = UF_find(UF_find(union_find, a).uf, b).root)
              <=> ClassOf(joined, a) = ClassOf(joined, b)

\* What a union or find step returns and keeps: union(a, b) returns True
\* exactly when a and b were in different sets, a False union and every
\* find leave the partition as it was, and find returns the root of its
\* element.
UnionFindStep ==
    /\ \A a, b \in DOMAIN union_find.parent :
          (call'.op = "UnionFind.union" /\ UnionFind_union(a, b))
              => /\ call'.val = (ClassOf(Partition(union_find), a)
                                    # ClassOf(Partition(union_find), b))
                 /\ call'.val = FALSE => Partition(union_find') = Partition(union_find)
                 /\ call'.val = TRUE
                       => Partition(union_find') = Merged(Partition(union_find), a, b)
    /\ \A a \in DOMAIN union_find.parent :
          (call'.op = "UnionFind.find" /\ UnionFind_find(a))
              => /\ Partition(union_find') = Partition(union_find)
                 /\ call'.val = RootOf(union_find, a)

\* C21: after any sequence of union and find calls, find(a) == find(b)
\* exactly when a and b have been joined, transitively, by the unions
\* made so far; union(a, b) returns True exactly when a and b were in
\* different sets before the call; a False union and any find, path
\* compression and all, leave the partition unchanged.
C21_UnionFindPartition ==
    /\ []FindAgreesWithUnions
    /\ [][UnionFindStep]_vars

\* A find has compressed a path: after three unions that made a chain of
\* two parent links, find of the deepest element returned the root and
\* left every element a child of the root.
C21_Witness ==
    /\ call.op = "UnionFind.find"
    /\ Cardinality(DOMAIN union_find.parent) = MaxElement
    /\ joined = {DOMAIN union_find.parent}
    /\ \E r \in DOMAIN union_find.parent :
          /\ union_find.rank[r] = 2
          /\ call.val = r
          /\ \A v \in DOMAIN union_find.parent : union_find.parent[v] = r

\* A chain of two parent links: an element whose parent is not a root.
UnionFindChain ==
    \E v \in DOMAIN union_find.parent :
        union_find.parent[union_find.parent[v]] # union_find.parent[v]

\* The element reached from v by k steps along the parent map of u.
RECURSIVE Ancestor(_, _, _)
Ancestor(u, v, k) == IF k = 0 THEN v ELSE Ancestor(u, u.parent[v], k - 1)

\* The parent map has no cycle but that of a root, its own parent: from
\* every element, as many steps as there are elements end at a root.
ParentMapAcyclic ==
    \A v \in DOMAIN union_find.parent :
        LET top == Ancestor(union_find, v, Cardinality(DOMAIN union_find.parent))
        IN union_find.parent[top] = top

\* A call that has left its loop returned or raised what the call taken
\* as one step returns or raises.
LoopOutcome ==
    LET outcome == [status |-> call.status, val |-> call.val]
    IN /\ call.op = "BFS.traverse" /\ ~Running
             => outcome = BFS_traverse(graph, call.args[1])
       /\ call.op = "DFS.traverse_iterative" /\ ~Running
             => outcome = DFS_traverse_iterative(graph, call.args[1])
       /\ call.op = "prim" /\ ~Running
             => outcome = MST_prim(graph, call.args[1])
       /\ call.op = "kahn_algorithm" /\ ~Running
             => outcome = Topo_kahn_algorithm(graph)
       /\ call.op = "UnionFind.find" /\ ~Running
             => /\ call.status = "return"
                /\ union_find.parent[call.val] = call.val
                /\ union_find.parent[call.args[1]] = call.val

\* C29: every call terminates on every finite graph, with cycles,
\* self-loops and parallel edges: a call of BFS.traverse,
\* DFS.traverse_iterative, prim or kahn_algorithm that has entered its
\* loop leaves it, the work list emptied or the loop exited, and a call
\* of UnionFind.find reaches a root, the parent map never having a cycle
\* but that of a root.
C29_CallsTerminate ==
    /\ []ParentMapAcyclic
    /\ Running ~> ~Running

\* The iterative DFS has returned the three vertices of a graph with three
\* edges and a cycle.
C29_Witness ==
    /\ call.op = "DFS.traverse_iterative"
    /\ call.status = "return"
    /\ Len(call.val) = 3
    /\ EdgeCalls = 3
    /\ HasDirectedCycle(graph)

\* find is on its way up a chain of two parent links.
C29_WitnessFind ==
    /\ call.op = "UnionFind.find"
    /\ Running
    /\ Len(call.val.work) = 3

====
